---- MODULE Spec2Model ----
(***************************************************************************)
(* ShadowLink: the encrypted vault subsystem.                              *)
(*                                                                         *)
(*   services/cryptoUtils.ts   key derivation, AES-GCM encrypt / decrypt   *)
(*   components/LockScreen     setup / unlock / reset (Settings.tsx:664..) *)
(*   App                       session key, view, active contact           *)
(*   components/ChatInterface  the conversation store (unnamed/part_004)   *)
(*                                                                         *)
(* An optional value (null, undefined, an absent localStorage item) is the *)
(* empty sequence <<>>, a present value v is <<v>>.                        *)
(***************************************************************************)
EXTENDS Integers, Sequences, FiniteSets, TLC

(***************************************************************************)
(* Bounds of the model.                                                    *)
(***************************************************************************)
MaxLen == 2        \* code units of a plaintext in the crypto specification
MaxSalt == 2       \* salts generateSalt hands out
MaxIv == 5         \* IVs encryptMessage draws in the vault specification
MaxTime == 2       \* clock ticks
MaxPending == 2    \* AI replies in flight; saves in flight are one more

Passwords == {"p1", "p2"}
SetupPasswords == {"p1"}   \* the password a vault is set up with

No == <<>>
Some(v) == <<v>>
IsSome(o) == o # <<>>
The(o) == o[1]

(***************************************************************************)
(* Text.  A JavaScript string is a sequence of UTF-16 code units.  The     *)
(* units that matter: ordinary characters (each stands for a well-formed   *)
(* run of text), the replacement character U+FFFD, and the two halves of   *)
(* a surrogate pair, which may also occur unpaired.                        *)
(***************************************************************************)
HI == "\\uD83D"
LO == "\\uDE00"
FFFD == "\\uFFFD"
PlaceholderText == "[Encrypted Message - Key Mismatch or Corrupted]"
Placeholder == <<PlaceholderText>>
Units == {"a", PlaceholderText, HI, LO}

RECURSIVE SeqsUpTo(_, _)
SeqsUpTo(S, n) ==
  IF n = 0 THEN {<<>>}
  ELSE LET shorter == SeqsUpTo(S, n - 1)
       IN  shorter \cup {Append(s, u) : s \in {t \in shorter : Len(t) = n - 1}, u \in S}

Plaintexts == SeqsUpTo(Units, MaxLen)

\* No unpaired surrogate: every HI is followed by a LO, every LO follows a HI.
WellFormed(str) ==
  \A i \in 1..Len(str) :
    /\ str[i] = HI => (i < Len(str) /\ str[i + 1] = LO)
    /\ str[i] = LO => (i > 1 /\ str[i - 1] = HI)

\* TextEncoder.encode: the string is first made a scalar-value string (an
\* unpaired surrogate becomes U+FFFD), then each scalar value is written in
\* UTF-8.  A buffer is the sequence of the encoded scalar values.
RECURSIVE strToBuf(_)
strToBuf(str) ==
  IF str = <<>> THEN <<>>
  ELSE IF Head(str) = HI /\ Len(str) >= 2 /\ str[2] = LO
       THEN <<[utf8 |-> "U+1F600"]>> \o strToBuf(SubSeq(str, 3, Len(str)))
  ELSE IF Head(str) \in {HI, LO}
       THEN <<[utf8 |-> FFFD]>> \o strToBuf(Tail(str))
  ELSE <<[utf8 |-> Head(str)]>> \o strToBuf(Tail(str))

\* A UTF-8 decoder that turns a four-byte sequence into U+FFFD.
RECURSIVE bufToStrNoSupplementary(_)
bufToStrNoSupplementary(buf) ==
  IF buf = <<>> THEN <<>>
  ELSE IF Head(buf).utf8 = "U+1F600"
       THEN <<FFFD>> \o bufToStrNoSupplementary(Tail(buf))
  ELSE <<Head(buf).utf8>> \o bufToStrNoSupplementary(Tail(buf))

\* TextDecoder.decode of well-formed UTF-8: a supplementary scalar value comes
\* back as its surrogate pair.
RECURSIVE bufToStr(_)
bufToStr(buf) ==
  IF buf = <<>> THEN <<>>
  ELSE IF Head(buf).utf8 = "U+1F600"
       THEN <<HI, LO>> \o bufToStr(Tail(buf))
  ELSE <<Head(buf).utf8>> \o bufToStr(Tail(buf))

\* btoa over the bytes / atob back to the bytes: a bijection between buffers
\* and their Base64 text.
bufToBase64(buf) == [b64 |-> buf]
base64ToBuf(str) == str.b64

(***************************************************************************)
(* Keys and AES-GCM.                                                       *)
(***************************************************************************)
\* PBKDF2: a deterministic function of (password, salt), collision-free.
deriveKey(password, salt) == [pw |-> password, salt |-> salt]

Keys == {deriveKey(p, s) : p \in Passwords, s \in 1..MaxSalt}

\* crypto.subtle.encrypt: the ciphertext with its tag is bound to the key, the
\* IV and the plaintext; flips counts bits changed after encryption.
SubtleEncrypt(iv, key, data) == [k |-> key, iv |-> iv, pt |-> data, flips |-> 0]

\* crypto.subtle.decrypt resolves only when the tag verifies.
SubtleVerifies(iv, key, ct) == ct.k = key /\ ct.iv = iv /\ ct.flips = 0

\* encryptMessage(text, key); iv is the value getRandomValues returns.
encryptMessage(text, key, iv) ==
  [ciphertext |-> bufToBase64(SubtleEncrypt(iv, key, strToBuf(text))),
   iv |-> bufToBase64(iv)]

\* decryptMessage: the catch block returns a display string.
decryptMessage(ciphertextBase64, ivBase64, key) ==
  LET ciphertext == base64ToBuf(ciphertextBase64)
      iv == base64ToBuf(ivBase64)
  IN  IF SubtleVerifies(iv, key, ciphertext)
      THEN bufToStr(ciphertext.pt)
      ELSE Placeholder

(***************************************************************************)
(* State.                                                                  *)
(***************************************************************************)
VARIABLES
  ls,            \* localStorage: salt, canary, profile, contacts, history
  currentView,   \* App.currentView
  cryptoKey,     \* App.cryptoKey
  activeContact, \* App.activeContact (the contact's id)
  lock,          \* LockScreen state: mode, isLoading, error
  auths,         \* the handleAuth calls in flight
  chat,          \* ChatInterface state: messages, ttl, isLoading
  saves,         \* saveToStorage calls between their read and their write
  replies,       \* handleSendResponse calls awaiting sendMessageToGemini
  loads,         \* loadMessages calls awaiting their decryptions
  contactSaves,  \* handleSaveContact calls awaiting their encryptions
  now,           \* Date.now()
  nextIv,        \* the next value getRandomValues returns for an IV
  nextSalt,      \* the next value generateSalt returns
  cr,            \* the crypto specification's state
  exported,      \* the backup file handleExportBackup has downloaded
  cloud,         \* the cloud backend: the signed-in user and the documents users/<id>
  notice,        \* the last alert shown by Settings
  swept,         \* the time of the latest sweep whose save has been written
  tools,         \* CryptoTools: its tab, inputs and result
  profileSaves,  \* the Settings.handleSave calls in flight
  profile        \* Settings.profile.id while Settings is mounted

vars == <<ls, currentView, cryptoKey, activeContact, lock, auths, chat, saves,
          replies, loads, contactSaves, now, nextIv, nextSalt, cr,
          exported, cloud, notice, swept, tools, profileSaves, profile>>


EmptyStorage == [salt |-> No, canary |-> No, profile |-> No, contacts |-> No, history |-> No]

\* LockScreen's useState initial values followed by its mount effect.
LockScreenMount(storage) ==
  [mode |-> IF storage.salt = No THEN "SETUP" ELSE "LOGIN", isLoading |-> FALSE, error |-> ""]

\* The state kept for a component that is not mounted.
LockScreenGone == [mode |-> "LOGIN", isLoading |-> FALSE, error |-> ""]
ChatGone == [messages |-> <<>>, ttl |-> 0, isLoading |-> FALSE]
CrIdle == [stage |-> "idle"]
ToolsGone == [stage |-> "gone"]
\* No anonymous user is signed in and no document is stored under the profile id.
CloudEmpty == [user |-> FALSE, docs |-> <<>>]

\* getDoc(doc(db, "users", remoteId)): the document, if it exists.
docOf(c, remoteId) == IF remoteId \in DOMAIN c.docs THEN Some(c.docs[remoteId]) ELSE No

\* setDoc(doc(db, "users", remoteId), payload).
setDoc(c, remoteId, payload) == [c EXCEPT !.docs = (remoteId :> payload) @@ c.docs]

LockScreenShown == currentView = "LOCK_SCREEN" \/ cryptoKey = No
ChatShown == ~LockScreenShown /\ currentView = "CHAT"

(***************************************************************************)
(* The conversation store (ChatInterface).                                 *)
(***************************************************************************)
InputTexts == {<<"a">>}
AudioText == <<"[Audio Message]">>
AudioData == {<<"a">>}
ProfileTexts == {<<>>, <<"a">>}

\* Values of crypto.randomUUID() in generateId.
FirstId == "user-1"
GeneratedIds == {FirstId, "user-2"}
ReplyTexts == {<<"a">>}
ContactNames == {<<"a">>}
GreetingText == <<"Secure channel established.">>

\* TTL_OPTIONS, in units of the model's clock: Off, and one timed option.
TtlOptions == {0, 1}

\* m.conversationId || 'global'
ConvOf(m) == IF m.conversationId = No THEN "global" ELSE The(m.conversationId)

\* !m.expiresAt || m.expiresAt > now
NotExpired(m, t) == m.expiresAt = No \/ The(m.expiresAt) > t

\* conversationId = activeContact ? activeContact.id : 'global'
conversationId(contact) == IF contact = No THEN "global" ELSE The(contact)

\* calculateExpiresAt
calculateExpiresAt(ttl, t) == IF ttl > 0 THEN Some(t + ttl) ELSE No

\* The number of IVs saveToStorage draws for one message.
IvNeedOne(m) == IF m.type = "audio" /\ m.mediaData # No THEN 2 ELSE 1

RECURSIVE IvNeed(_)
IvNeed(msgs) == IF msgs = <<>> THEN 0 ELSE IvNeedOne(Head(msgs)) + IvNeed(Tail(msgs))

\* The body of saveToStorage's map with the media encrypted under the IV
\* of the content.
EncryptOneSharedIv(m, key, conv, iv) ==
  LET c == encryptMessage(m.content, key, iv)
      withMedia == m.type = "audio" /\ m.mediaData # No
      media == encryptMessage(The(m.mediaData), key, iv)
  IN  [id |-> m.id, role |-> m.role, timestamp |-> m.timestamp,
       ciphertext |-> c.ciphertext, iv |-> c.iv, type |-> m.type,
       ciphertextMedia |-> IF withMedia THEN Some(media.ciphertext) ELSE No,
       ivMedia |-> IF withMedia THEN Some(media.iv) ELSE No,
       salt |-> "", expiresAt |-> m.expiresAt, conversationId |-> Some(conv)]

\* The body of saveToStorage's map: one message, encrypted field by field.
EncryptOne(m, key, conv, iv) ==
  LET c == encryptMessage(m.content, key, iv)
      withMedia == m.type = "audio" /\ m.mediaData # No
      media == encryptMessage(The(m.mediaData), key, iv + 1)
  IN  [id |-> m.id, role |-> m.role, timestamp |-> m.timestamp,
       ciphertext |-> c.ciphertext, iv |-> c.iv, type |-> m.type,
       ciphertextMedia |-> IF withMedia THEN Some(media.ciphertext) ELSE No,
       ivMedia |-> IF withMedia THEN Some(media.iv) ELSE No,
       salt |-> "", expiresAt |-> m.expiresAt, conversationId |-> Some(conv)]

RECURSIVE EncryptAll(_, _, _, _)
EncryptAll(msgs, key, conv, iv) ==
  IF msgs = <<>> THEN <<>>
  ELSE <<EncryptOne(Head(msgs), key, conv, iv)>>
         \o EncryptAll(Tail(msgs), key, conv, iv + IvNeedOne(Head(msgs)))

\* A stored history that is not the JSON text of an array: JSON.parse
\* throws on it, or the array methods called on its result do.
Garbled == <<[garbled |-> TRUE]>>

\* JSON.parse(stored) gives an array.
Parses(stored) == The(stored) # Garbled

\* allEncrypted.filter(m => (m.conversationId || 'global') !== conversationId)
RemoveConversation(allEncrypted, conv) ==
  LET Other(m) == ConvOf(m) # conv IN SelectSeq(allEncrypted, Other)

\* A save that writes the current conversation alone.
SaveMergeOnlyNew(allEncrypted, newEncrypted) == newEncrypted

\* finalStorage = [...allEncrypted, ...newEncrypted]
SaveMerge(allEncrypted, newEncrypted) == allEncrypted \o newEncrypted

\* saveToStorage up to its await: the read of the stored collection, the
\* filter, and the IVs of the new records, which encryptMessage draws before
\* it first suspends.
saveToStorage(storage, newCurrentMessages, conv, key, iv) ==
  LET stored == storage.history
      parsed == IF stored = No THEN <<>> ELSE The(stored)
  IN  [stored |-> stored,
       allEncrypted |-> RemoveConversation(parsed, conv),
       newEncrypted |-> EncryptAll(newCurrentMessages, key, conv, iv),
       conversationId |-> conv]

\* The saves a call of saveToStorage leaves awaiting: none when the read
\* throws, which the catch of saveToStorage logs.
savesStarted(storage, newCurrentMessages, conv, key, iv) ==
  IF storage.history # No /\ ~Parses(storage.history) THEN {}
  ELSE {saveToStorage(storage, newCurrentMessages, conv, key, iv)}

\* The IVs a call of saveToStorage draws.
ivsDrawn(storage, newCurrentMessages) ==
  IF storage.history # No /\ ~Parses(storage.history) THEN 0 ELSE IvNeed(newCurrentMessages)

\* The body of loadMessages' map: one record, decrypted.
DecryptOne(m, key) ==
  [id |-> m.id, role |-> m.role, timestamp |-> m.timestamp,
   content |-> decryptMessage(m.ciphertext, m.iv, key),
   type |-> m.type,
   mediaData |-> IF m.type = "audio" /\ m.ciphertextMedia # No /\ m.ivMedia # No
                 THEN Some(decryptMessage(The(m.ciphertextMedia), The(m.ivMedia), key))
                 ELSE No,
   encrypted |-> Some(FALSE),
   expiresAt |-> m.expiresAt, conversationId |-> Some(ConvOf(m))]

DecryptAll(ms, key) == [i \in 1..Len(ms) |-> DecryptOne(ms[i], key)]

Greeting(id, role, conv, t) ==
  [id |-> id, role |-> role, timestamp |-> t, content |-> GreetingText,
   type |-> "text", mediaData |-> No, encrypted |-> No, expiresAt |-> No,
   conversationId |-> Some(conv)]

\* loadMessages up to its await: the read, the expiry filter and the
\* write-back of the pruned collection; with nothing stored, the first-run
\* greeting.  msgs is the message list shown before the call.
loadMessages(storage, conv, key, msgs, t) ==
  IF storage.history = No
  THEN [ls |-> storage,
        messages |-> IF conv = "global" THEN <<Greeting("init", "model", "global", t)>> ELSE msgs,
        pending |-> {}]
  ELSE IF ~Parses(storage.history)
  THEN [ls |-> storage, messages |-> msgs, pending |-> {}]
  ELSE LET encryptedHistory == The(storage.history)
           Valid(m) == NotExpired(m, t)
           validMessages == SelectSeq(encryptedHistory, Valid)
       IN  [ls |-> IF Len(validMessages) # Len(encryptedHistory)
                   THEN [storage EXCEPT !.history = Some(validMessages)]
                   ELSE storage,
            messages |-> msgs,
            pending |-> {[encryptedHistory |-> encryptedHistory, now |-> t,
                          validMessages |-> validMessages, conversationId |-> conv,
                          key |-> key]}]

\* A load that shows the records of every conversation.
loadedMessagesUnfiltered(l, t) == DecryptAll(l.validMessages, l.key)

\* loadMessages after its await: what setMessages receives.
loadedMessages(l, t) ==
  LET allDecryptedMessages == DecryptAll(l.validMessages, l.key)
      Mine(m) == The(m.conversationId) = l.conversationId
      filteredMessages == SelectSeq(allDecryptedMessages, Mine)
  IN  IF filteredMessages = <<>> /\ l.conversationId # "global"
      THEN <<Greeting("init-contact", "system", l.conversationId, t)>>
      ELSE IF filteredMessages = <<>>
      THEN <<Greeting("init-global", "model", "global", t)>>
      ELSE filteredMessages

\* Promises of an unmounted component still run; their setState calls are lost.
Detach(S) == {[x EXCEPT !.live = FALSE] : x \in S}

(***************************************************************************)
(* The vault specification: App, LockScreen, ChatInterface, Contacts.      *)
(***************************************************************************)
Init ==
  /\ ls = EmptyStorage
  /\ currentView = "LOCK_SCREEN"
  /\ cryptoKey = No
  /\ activeContact = No
  /\ lock = LockScreenMount(EmptyStorage)
  /\ auths = {}
  /\ chat = ChatGone
  /\ saves = {}
  /\ replies = {}
  /\ loads = {}
  /\ contactSaves = {}
  /\ now = 0
  /\ nextIv = 1
  /\ nextSalt = 1
  /\ cr = CrIdle
  /\ exported = No
  /\ cloud = CloudEmpty
  /\ notice = ""
  /\ swept = No
  /\ tools = ToolsGone
  /\ profileSaves = {}
  /\ profile = No

\* What a change of App's state does to ChatInterface, given the primed App
\* variables and the storage the handler leaves: an unmount drops the
\* component's state (a loadMessages call still awaiting has nothing left to
\* do but a setMessages that is lost, so it is dropped with it), a mount runs
\* loadMessages on fresh state, and a change
\* of cryptoKey or activeContact under a mounted component runs loadMessages
\* again (useEffect on [cryptoKey, activeContact]).
ChatRender(storage) ==
  IF ~ChatShown'
  THEN /\ ls' = storage
       /\ chat' = ChatGone
       /\ loads' = {}
       /\ replies' = IF ChatShown THEN Detach(replies) ELSE replies
  ELSE IF ~ChatShown \/ <<cryptoKey', activeContact'>> # <<cryptoKey, activeContact>>
  THEN LET shown == IF ChatShown THEN chat ELSE ChatGone
           r == loadMessages(storage, conversationId(activeContact'), The(cryptoKey'),
                             shown.messages, now)
       IN  /\ ls' = r.ls
           /\ chat' = [shown EXCEPT !.messages = r.messages]
           /\ loads' = loads \cup r.pending
           /\ replies' = replies
  ELSE /\ ls' = storage
       /\ UNCHANGED <<chat, loads, replies>>

\* A submit button that is never disabled.
SubmitEnabledAlways(l) == TRUE

\* <Button type="submit" isLoading={isLoading}>: disabled={isLoading || disabled}
SubmitEnabled(l) == ~l.isLoading

\* handleAuth up to its first await (the 600 ms delay).
handleAuth(password) ==
  /\ LockScreenShown
  /\ SubmitEnabled(lock)
  /\ lock' = [lock EXCEPT !.isLoading = TRUE, !.error = ""]
  /\ auths' = auths \cup {[pc |-> "delay", mode |-> lock.mode, password |-> password, salt |-> 0]}
  /\ UNCHANGED <<ls, currentView, cryptoKey, activeContact, chat, saves, replies, loads,
                 contactSaves, now, nextIv, nextSalt, cr,
                 exported, cloud, notice, swept, tools, profileSaves, profile>>

\* The SETUP branch up to `await deriveKey`: the new salt is persisted.
handleAuthSetup(a) ==
  /\ a.pc = "delay" /\ a.mode = "SETUP"
  /\ nextSalt <= MaxSalt
  /\ ls' = [ls EXCEPT !.salt = Some(bufToBase64(nextSalt))]
  /\ nextSalt' = nextSalt + 1
  /\ auths' = (auths \ {a}) \cup {[a EXCEPT !.pc = "deriveSetup", !.salt = nextSalt]}
  /\ UNCHANGED <<currentView, cryptoKey, activeContact, lock, chat, saves, replies, loads,
                 contactSaves, now, nextIv, cr,
                 exported, cloud, notice, swept, tools, profileSaves, profile>>

\* A LOGIN branch that goes on to deriveKey without a stored salt.
loginWithoutSaltDerives(a) ==
  /\ auths' = (auths \ {a}) \cup {[a EXCEPT !.pc = "deriveLogin"]}
  /\ UNCHANGED <<ls, cryptoKey, currentView, lock>>

\* The LOGIN branch when no salt is stored: the error, and setup mode.
loginWithoutSalt(a) ==
  /\ lock' = IF LockScreenShown
             THEN [lock EXCEPT !.error = "Storage corrupted. Reset required.",
                               !.mode = "SETUP", !.isLoading = FALSE]
             ELSE lock
  /\ auths' = auths \ {a}
  /\ UNCHANGED <<ls, cryptoKey, currentView>>

\* A LOGIN branch that stores a new salt and derives the key from it.
loginWithSaltRegenerated(a) ==
  /\ ls' = [ls EXCEPT !.salt = Some(bufToBase64(nextSalt))]
  /\ auths' = (auths \ {a}) \cup {[a EXCEPT !.pc = "deriveLogin", !.salt = nextSalt]}
  /\ UNCHANGED <<cryptoKey, currentView, lock>>

\* The LOGIN branch when a salt is stored: it is read, and deriveKey awaited.
loginWithSalt(a) ==
  /\ auths' = (auths \ {a}) \cup
                {[a EXCEPT !.pc = "deriveLogin", !.salt = base64ToBuf(The(ls.salt))]}
  /\ UNCHANGED <<ls, cryptoKey, currentView, lock>>

\* The LOGIN branch up to `await deriveKey`.
handleAuthLogin(a) ==
  /\ a.pc = "delay" /\ a.mode = "LOGIN"
  /\ IF ls.salt = No THEN loginWithoutSalt(a) ELSE loginWithSalt(a)
  /\ UNCHANGED <<activeContact, chat, saves, replies, loads, contactSaves, now, nextIv,
                 nextSalt, cr,
                 exported, cloud, notice, swept, tools, profileSaves, profile>>

\* App.handleUnlock, called by handleAuth once deriveKey has resolved; the
\* SETUP branch writes the canary first.  LockScreen is unmounted by it.
handleUnlock(a) ==
  /\ a.pc \in {"deriveSetup", "deriveLogin"}
  /\ cryptoKey' = Some(deriveKey(a.password, a.salt))
  /\ currentView' = "CHAT"
  /\ auths' = auths \ {a}
  /\ lock' = LockScreenGone
  /\ activeContact' = activeContact
  /\ ChatRender(IF a.pc = "deriveSetup" THEN [ls EXCEPT !.canary = Some("active")] ELSE ls)
  /\ UNCHANGED <<saves, contactSaves, now, nextIv, nextSalt, cr,
                 exported, cloud, notice, swept, tools, profileSaves, profile>>

\* A reset that removes the stored messages and nothing else.
handleResetMessagesOnly ==
  /\ LockScreenShown
  /\ lock.mode = "LOGIN"
  /\ ls' = [ls EXCEPT !.history = No]
  /\ lock' = [lock EXCEPT !.mode = "SETUP"]
  /\ UNCHANGED <<currentView, cryptoKey, activeContact, auths, chat, saves, replies, loads,
                 contactSaves, now, nextIv, nextSalt, cr,
                 exported, cloud, notice, swept, tools, profileSaves, profile>>

\* LockScreen.handleReset, confirmed; the button is rendered in LOGIN mode.
handleReset ==
  /\ LockScreenShown
  /\ lock.mode = "LOGIN"
  /\ ls' = EmptyStorage
  /\ lock' = [lock EXCEPT !.mode = "SETUP"]
  /\ UNCHANGED <<currentView, cryptoKey, activeContact, auths, chat, saves, replies, loads,
                 contactSaves, now, nextIv, nextSalt, cr,
                 exported, cloud, notice, swept, tools, profileSaves, profile>>

\* App.handleLock, reached from the Settings view; LockScreen mounts.
handleLock ==
  /\ ~LockScreenShown
  /\ currentView = "SETTINGS"
  /\ cryptoKey' = No
  /\ currentView' = "LOCK_SCREEN"
  /\ activeContact' = No
  /\ lock' = LockScreenMount(ls)
  /\ profile' = No
  /\ ChatRender(ls)
  /\ UNCHANGED <<auths, saves, contactSaves, now, nextIv, nextSalt, cr,
                 exported, cloud, notice, swept, tools, profileSaves>>

\* App.handleGlobalChat (the Chat button of the navigation bar).
handleGlobalChat ==
  /\ ~LockScreenShown
  /\ currentView # "CHAT" \/ activeContact # No
  /\ activeContact' = No
  /\ currentView' = "CHAT"
  /\ cryptoKey' = cryptoKey
  /\ profile' = No
  /\ ChatRender(ls)
  /\ UNCHANGED <<lock, auths, saves, contactSaves, now, nextIv, nextSalt, cr,
                 exported, cloud, notice, swept, tools, profileSaves>>

\* Settings.loadProfile: the id of the stored profile, or the one generateId
\* returns for this mount.
profileId(storage, generated) ==
  IF storage.profile = No THEN generated ELSE The(storage.profile).id

\* The Contacts and Settings buttons of the navigation bar; Settings, when it
\* mounts, loads its profile, and generateId returns generated.
setCurrentView(view, generated) ==
  /\ ~LockScreenShown
  /\ currentView # view
  /\ currentView' = view
  /\ profile' = IF view = "SETTINGS" THEN Some(profileId(ls, generated)) ELSE No
  /\ UNCHANGED <<cryptoKey, activeContact>>
  /\ ChatRender(ls)
  /\ UNCHANGED <<lock, auths, saves, contactSaves, now, nextIv, nextSalt, cr,
                 exported, cloud, notice, swept, tools, profileSaves>>

\* The ids of the stored contacts, which the Contacts view lists.
ContactIds(storage) ==
  IF storage.contacts = No THEN {}
  ELSE {The(storage.contacts)[i].id : i \in 1..Len(The(storage.contacts))}

\* A load of the contacts that gives up when one decryption fails.
loadContactsAllOrNothing(storage, key) ==
  IF storage.contacts = No THEN <<>>
  ELSE LET encryptedContacts == The(storage.contacts)
       IN  IF \E i \in 1..Len(encryptedContacts) :
                 ~SubtleVerifies(base64ToBuf(encryptedContacts[i].ivName), key,
                                 base64ToBuf(encryptedContacts[i].ciphertextName))
           THEN <<>>
           ELSE [i \in 1..Len(encryptedContacts) |->
                   [id |-> encryptedContacts[i].id,
                    name |-> decryptMessage(encryptedContacts[i].ciphertextName,
                                            encryptedContacts[i].ivName, key),
                    note |-> decryptMessage(encryptedContacts[i].ciphertextNote,
                                            encryptedContacts[i].ivNote, key)]]

\* Contacts.loadContacts: the list setContacts receives; with nothing stored
\* the list stays empty.
loadContacts(storage, key) ==
  IF storage.contacts = No THEN <<>>
  ELSE LET encryptedContacts == The(storage.contacts)
       IN  [i \in 1..Len(encryptedContacts) |->
              [id |-> encryptedContacts[i].id,
               name |-> decryptMessage(encryptedContacts[i].ciphertextName,
                                       encryptedContacts[i].ivName, key),
               note |-> decryptMessage(encryptedContacts[i].ciphertextNote,
                                       encryptedContacts[i].ivNote, key)]]

\* App.handleChatStart: a contact of the Contacts view is opened.
handleChatStart(contact) ==
  /\ ~LockScreenShown
  /\ currentView = "CONTACTS"
  /\ activeContact' = Some(contact)
  /\ currentView' = "CHAT"
  /\ cryptoKey' = cryptoKey
  /\ profile' = No
  /\ ChatRender(ls)
  /\ UNCHANGED <<lock, auths, saves, contactSaves, now, nextIv, nextSalt, cr,
                 exported, cloud, notice, swept, tools, profileSaves>>

\* Contacts.handleSaveContact up to the end of its two encryptions.
handleSaveContact(newName, newNote) ==
  /\ ~LockScreenShown
  /\ currentView = "CONTACTS"
  /\ contactSaves = {}
  /\ nextIv + 1 <= MaxIv
  /\ LET name == encryptMessage(newName, The(cryptoKey), nextIv)
         note == encryptMessage(newNote, The(cryptoKey), nextIv + 1)
     IN  contactSaves' = {[ciphertextName |-> name.ciphertext, ivName |-> name.iv,
                           ciphertextNote |-> note.ciphertext, ivNote |-> note.iv]}
  /\ nextIv' = nextIv + 2
  /\ UNCHANGED <<ls, currentView, cryptoKey, activeContact, lock, auths, chat, saves,
                 replies, loads, now, nextSalt, cr,
                 exported, cloud, notice, swept, tools, profileSaves, profile>>

\* handleSaveContact writing the new record alone.
contactStoredAlone(c) ==
  /\ LET newStoredContact == [id |-> ToString(now), ciphertextName |-> c.ciphertextName,
                              ivName |-> c.ivName, ciphertextNote |-> c.ciphertextNote,
                              ivNote |-> c.ivNote]
     IN  ls' = [ls EXCEPT !.contacts = Some(<<newStoredContact>>)]
  /\ contactSaves' = contactSaves \ {c}
  /\ UNCHANGED <<currentView, cryptoKey, activeContact, lock, auths, chat, saves,
                 replies, loads, now, nextIv, nextSalt, cr,
                 exported, cloud, notice, swept, tools, profileSaves, profile>>

\* Contacts.handleDelete, confirmed: the stored contacts are read and
\* written back without the records of the id.
handleDelete(id) ==
  /\ ~LockScreenShown
  /\ currentView = "CONTACTS"
  /\ ls.contacts # No
  /\ LET storedContacts == The(ls.contacts)
         Other(c) == c.id # id
         updatedStored == SelectSeq(storedContacts, Other)
     IN  ls' = [ls EXCEPT !.contacts = Some(updatedStored)]
  /\ UNCHANGED <<currentView, cryptoKey, activeContact, lock, auths, chat, saves,
                 replies, loads, contactSaves, now, nextIv, nextSalt, cr,
                 exported, cloud, notice, swept, tools, profileSaves, profile>>

\* Contacts.handleSaveContact after its encryptions: the stored contacts are
\* read, the new record is appended, the collection is written.
contactStored(c) ==
  /\ LET newStoredContact == [id |-> ToString(now), ciphertextName |-> c.ciphertextName,
                              ivName |-> c.ivName, ciphertextNote |-> c.ciphertextNote,
                              ivNote |-> c.ivNote]
         storedContacts == IF ls.contacts = No THEN <<>> ELSE The(ls.contacts)
     IN  ls' = [ls EXCEPT !.contacts = Some(Append(storedContacts, newStoredContact))]
  /\ contactSaves' = contactSaves \ {c}
  /\ UNCHANGED <<currentView, cryptoKey, activeContact, lock, auths, chat, saves,
                 replies, loads, now, nextIv, nextSalt, cr,
                 exported, cloud, notice, swept, tools, profileSaves, profile>>

\* ChatInterface.handleSendText: the user message joins the list, the list is
\* saved, and handleSendResponse starts the AI exchange.  The send button
\* and the input are disabled while isLoading.
handleSendText(inputText) ==
  /\ ChatShown
  /\ ~chat.isLoading
  /\ Cardinality(replies) < MaxPending
  /\ Cardinality(saves) <= MaxPending
  /\ LET conv == conversationId(activeContact)
         userMsg == [id |-> ToString(now), role |-> "user", timestamp |-> now,
                     content |-> inputText, type |-> "text", mediaData |-> No, encrypted |-> No,
                     expiresAt |-> calculateExpiresAt(chat.ttl, now),
                     conversationId |-> Some(conv)]
         newHistory == Append(chat.messages, userMsg)
     IN  /\ nextIv + ivsDrawn(ls, newHistory) - 1 <= MaxIv
         /\ Len(newHistory) <= MaxIv
         /\ chat' = [chat EXCEPT !.messages = newHistory, !.isLoading = TRUE]
         /\ saves' = saves \cup savesStarted(ls, newHistory, conv, The(cryptoKey), nextIv)
         /\ nextIv' = nextIv + ivsDrawn(ls, newHistory)
         /\ replies' = replies \cup
              {[userMsg |-> userMsg, currentHistory |-> newHistory, conversationId |-> conv,
                key |-> The(cryptoKey), ttl |-> chat.ttl, live |-> TRUE]}
  /\ UNCHANGED <<ls, currentView, cryptoKey, activeContact, lock, auths, loads, contactSaves,
                 now, nextSalt, cr,
                 exported, cloud, notice, swept, tools, profileSaves, profile>>

\* saveToStorage after its await: the write of the merged collection.
saveWritten(s) ==
  /\ ls' = [ls EXCEPT !.history = Some(SaveMerge(s.allEncrypted, s.newEncrypted))]
  /\ saves' = saves \ {s}
  /\ UNCHANGED <<currentView, cryptoKey, activeContact, lock, auths, chat, replies, loads,
                 contactSaves, now, nextIv, nextSalt, cr,
                 exported, cloud, notice, swept, tools, profileSaves, profile>>

\* handleSendResponse after sendMessageToGemini has resolved (it resolves to
\* an error text when the exchange fails): the reply joins the history that
\* was captured at send time, and that list is saved under the conversation,
\* key and ttl captured at send time.
handleSendResponse(r, responseText) ==
  /\ Cardinality(saves) <= MaxPending
  /\ LET botMsg == [id |-> ToString(now + 1), role |-> "model", timestamp |-> now,
                    content |-> responseText, type |-> "text", mediaData |-> No, encrypted |-> No,
                    expiresAt |-> calculateExpiresAt(r.ttl, now),
                    conversationId |-> Some(r.conversationId)]
         finalHistory == Append(r.currentHistory, botMsg)
     IN  /\ nextIv + ivsDrawn(ls, finalHistory) - 1 <= MaxIv
         /\ Len(finalHistory) <= MaxIv
         /\ chat' = IF r.live
                    THEN [chat EXCEPT !.messages = finalHistory, !.isLoading = FALSE]
                    ELSE chat
         /\ saves' = saves \cup savesStarted(ls, finalHistory, r.conversationId, r.key, nextIv)
         /\ nextIv' = nextIv + ivsDrawn(ls, finalHistory)
  /\ replies' = replies \ {r}
  /\ UNCHANGED <<ls, currentView, cryptoKey, activeContact, lock, auths, loads, contactSaves,
                 now, nextSalt, cr,
                 exported, cloud, notice, swept, tools, profileSaves, profile>>

\* loadMessages after its decryptions.
messagesLoaded(l) ==
  /\ chat' = [chat EXCEPT !.messages = loadedMessages(l, now)]
  /\ loads' = loads \ {l}
  /\ UNCHANGED <<ls, currentView, cryptoKey, activeContact, lock, auths, saves, replies,
                 contactSaves, now, nextIv, nextSalt, cr,
                 exported, cloud, notice, swept, tools, profileSaves, profile>>

\* The TTL menu: setTtl(opt.value).
setTtl(value) ==
  /\ ChatShown
  /\ chat.ttl # value
  /\ chat' = [chat EXCEPT !.ttl = value]
  /\ UNCHANGED <<ls, currentView, cryptoKey, activeContact, lock, auths, saves, replies, loads,
                 contactSaves, now, nextIv, nextSalt, cr,
                 exported, cloud, notice, swept, tools, profileSaves, profile>>

\* A clear that removes the stored collection, every conversation with it.
handleClearAll ==
  /\ ChatShown
  /\ chat' = [chat EXCEPT !.messages = <<>>]
  /\ ls' = [ls EXCEPT !.history = No]
  /\ UNCHANGED <<currentView, cryptoKey, activeContact, lock, auths, saves, replies, loads,
                 contactSaves, now, nextIv, nextSalt, cr,
                 exported, cloud, notice, swept, tools, profileSaves, profile>>

\* ChatInterface.handleClear, confirmed: the list is emptied, and the stored
\* collection, when there is one, is written back without this conversation;
\* when the read throws, the handler ends there.
handleClear ==
  /\ ChatShown
  /\ chat' = [chat EXCEPT !.messages = <<>>]
  /\ ls' = IF ls.history = No \/ ~Parses(ls.history) THEN ls
           ELSE LET all == The(ls.history)
                    kept == RemoveConversation(all, conversationId(activeContact))
                IN  [ls EXCEPT !.history = Some(kept)]
  /\ UNCHANGED <<currentView, cryptoKey, activeContact, lock, auths, saves, replies, loads,
                 contactSaves, now, nextIv, nextSalt, cr,
                 exported, cloud, notice, swept, tools, profileSaves, profile>>

\* ChatInterface.handleSendAudio, called when a recording has been read:
\* the audio message joins the list, the list is saved, and
\* handleSendResponse starts the AI exchange.  The microphone button is
\* not disabled while isLoading.
handleSendAudio(base64Audio) ==
  /\ ChatShown
  /\ Cardinality(replies) < MaxPending
  /\ Cardinality(saves) <= MaxPending
  /\ LET conv == conversationId(activeContact)
         userMsg == [id |-> ToString(now), role |-> "user", timestamp |-> now,
                     content |-> AudioText, type |-> "audio", mediaData |-> Some(base64Audio),
                     encrypted |-> No, expiresAt |-> calculateExpiresAt(chat.ttl, now),
                     conversationId |-> Some(conv)]
         newHistory == Append(chat.messages, userMsg)
     IN  /\ nextIv + ivsDrawn(ls, newHistory) - 1 <= MaxIv
         /\ Len(newHistory) <= MaxIv
         /\ chat' = [chat EXCEPT !.messages = newHistory, !.isLoading = TRUE]
         /\ saves' = saves \cup savesStarted(ls, newHistory, conv, The(cryptoKey), nextIv)
         /\ nextIv' = nextIv + ivsDrawn(ls, newHistory)
         /\ replies' = replies \cup
              {[userMsg |-> userMsg, currentHistory |-> newHistory, conversationId |-> conv,
                key |-> The(cryptoKey), ttl |-> chat.ttl, live |-> TRUE]}
  /\ UNCHANGED <<ls, currentView, cryptoKey, activeContact, lock, auths, loads, contactSaves,
                 now, nextSalt, cr,
                 exported, cloud, notice, swept, tools, profileSaves, profile>>

\* Settings.handleSave up to the end of its two encryptions.
handleSave(nickname, bio) ==
  /\ ~LockScreenShown
  /\ currentView = "SETTINGS"
  /\ profileSaves = {}
  /\ profile # No
  /\ nextIv + 1 <= MaxIv
  /\ LET encryptedName == encryptMessage(nickname, The(cryptoKey), nextIv)
         encryptedBio == encryptMessage(bio, The(cryptoKey), nextIv + 1)
     IN  profileSaves' = {[id |-> The(profile),
                           ciphertextNickname |-> encryptedName.ciphertext,
                           ivNickname |-> encryptedName.iv,
                           ciphertextBio |-> encryptedBio.ciphertext,
                           ivBio |-> encryptedBio.iv]}
  /\ nextIv' = nextIv + 2
  /\ UNCHANGED <<ls, currentView, cryptoKey, activeContact, lock, auths, chat, saves,
                 replies, loads, contactSaves, now, nextSalt, cr,
                 exported, cloud, notice, swept, tools, profile>>

\* Settings.handleSave after its encryptions: the profile is written.
profileStored(p) ==
  /\ ls' = [ls EXCEPT !.profile = Some(p)]
  /\ profileSaves' = profileSaves \ {p}
  /\ UNCHANGED <<currentView, cryptoKey, activeContact, lock, auths, chat, saves,
                 replies, loads, contactSaves, now, nextIv, nextSalt, cr,
                 exported, cloud, notice, swept, tools, profile>>

\* The clock advances.
Tick ==
  /\ now < MaxTime
  /\ now' = now + 1
  /\ UNCHANGED <<ls, currentView, cryptoKey, activeContact, lock, auths, chat, saves,
                 replies, loads, contactSaves, nextIv, nextSalt, cr,
                 exported, cloud, notice, swept, tools, profileSaves, profile>>

(***************************************************************************)
(* The older App (src/App.tsx) with the older ChatInterface                *)
(* (unnamed/part_003): one conversation, stored whole by every save, and   *)
(* an expiration checker that runs every five seconds while the chat is    *)
(* mounted.  Its messages and records have no conversationId.              *)
(***************************************************************************)
legacyGreeting(t) ==
  [id |-> "init", role |-> "model", timestamp |-> t, content |-> GreetingText,
   type |-> "text", mediaData |-> No, encrypted |-> No, expiresAt |-> No]

\* The body of saveToStorage's map.
legacyEncryptOne(m, key, iv) ==
  LET c == encryptMessage(m.content, key, iv)
      withMedia == m.type = "audio" /\ m.mediaData # No
      media == encryptMessage(The(m.mediaData), key, iv + 1)
  IN  [id |-> m.id, role |-> m.role, timestamp |-> m.timestamp,
       ciphertext |-> c.ciphertext, iv |-> c.iv, type |-> m.type,
       ciphertextMedia |-> IF withMedia THEN Some(media.ciphertext) ELSE No,
       ivMedia |-> IF withMedia THEN Some(media.iv) ELSE No,
       salt |-> "", expiresAt |-> m.expiresAt]

RECURSIVE legacyEncryptAll(_, _, _)
legacyEncryptAll(msgs, key, iv) ==
  IF msgs = <<>> THEN <<>>
  ELSE <<legacyEncryptOne(Head(msgs), key, iv)>>
         \o legacyEncryptAll(Tail(msgs), key, iv + IvNeedOne(Head(msgs)))

\* saveToStorage up to its await; sweep is the time of the expiration
\* check that called it through syncStorageAfterPrune, if one did.
legacySaveToStorage(msgs, key, iv, sweep) ==
  [encryptedHistory |-> legacyEncryptAll(msgs, key, iv), sweep |-> sweep]

\* The body of loadMessages' map.
legacyDecryptOne(m, key) ==
  [id |-> m.id, role |-> m.role, timestamp |-> m.timestamp,
   content |-> decryptMessage(m.ciphertext, m.iv, key),
   type |-> m.type,
   mediaData |-> IF m.type = "audio" /\ m.ciphertextMedia # No /\ m.ivMedia # No
                 THEN Some(decryptMessage(The(m.ciphertextMedia), The(m.ivMedia), key))
                 ELSE No,
   encrypted |-> Some(FALSE), expiresAt |-> m.expiresAt]

legacyDecryptAll(ms, key) == [i \in 1..Len(ms) |-> legacyDecryptOne(ms[i], key)]

\* The mount effect's loadMessages up to its await.
legacyLoadMessages(storage, key, t) ==
  IF storage.history = No
  THEN [ls |-> storage, messages |-> <<legacyGreeting(t)>>, pending |-> {}]
  ELSE LET encryptedHistory == The(storage.history)
           Valid(m) == NotExpired(m, t)
           validMessages == SelectSeq(encryptedHistory, Valid)
       IN  [ls |-> IF Len(validMessages) # Len(encryptedHistory)
                   THEN [storage EXCEPT !.history = Some(validMessages)]
                   ELSE storage,
            messages |-> <<>>,
            pending |-> {[validMessages |-> validMessages, key |-> key]}]

\* What a change of the older App's state does to ChatInterface.
legacyChatRender(storage) ==
  IF ~ChatShown'
  THEN /\ ls' = storage
       /\ chat' = ChatGone
       /\ loads' = {}
       /\ replies' = IF ChatShown THEN Detach(replies) ELSE replies
  ELSE IF ~ChatShown
  THEN LET r == legacyLoadMessages(storage, The(cryptoKey'), now)
       IN  /\ ls' = r.ls
           /\ chat' = [ChatGone EXCEPT !.messages = r.messages]
           /\ loads' = r.pending
           /\ replies' = replies
  ELSE /\ ls' = storage
       /\ UNCHANGED <<chat, loads, replies>>

\* App.handleUnlock of the older App.
legacyHandleUnlock(a) ==
  /\ a.pc \in {"deriveSetup", "deriveLogin"}
  /\ cryptoKey' = Some(deriveKey(a.password, a.salt))
  /\ currentView' = "CHAT"
  /\ auths' = auths \ {a}
  /\ lock' = LockScreenGone
  /\ legacyChatRender(IF a.pc = "deriveSetup" THEN [ls EXCEPT !.canary = Some("active")] ELSE ls)
  /\ UNCHANGED <<activeContact, saves, contactSaves, now, nextIv, nextSalt, cr,
                 exported, cloud, notice, swept, tools, profileSaves, profile>>

\* The navigation bar of the older App.
legacySetCurrentView(view, generated) ==
  /\ ~LockScreenShown
  /\ currentView # view
  /\ currentView' = view
  /\ profile' = IF view = "SETTINGS" THEN Some(profileId(ls, generated)) ELSE No
  /\ cryptoKey' = cryptoKey
  /\ legacyChatRender(ls)
  /\ UNCHANGED <<activeContact, lock, auths, saves, contactSaves, now, nextIv, nextSalt, cr,
                 exported, cloud, notice, swept, tools, profileSaves>>

\* loadMessages after its decryptions.
legacyMessagesLoaded(l) ==
  /\ chat' = [chat EXCEPT !.messages = legacyDecryptAll(l.validMessages, l.key)]
  /\ loads' = loads \ {l}
  /\ UNCHANGED <<ls, currentView, cryptoKey, activeContact, lock, auths, saves, replies,
                 contactSaves, now, nextIv, nextSalt, cr, exported, cloud, notice, swept, tools, profileSaves, profile>>

\* handleSendText up to `await sendMessageToGemini`.
legacyHandleSendText(inputText) ==
  /\ ChatShown
  /\ ~chat.isLoading
  /\ Cardinality(replies) < MaxPending
  /\ LET userMsg == [id |-> ToString(now), role |-> "user", timestamp |-> now,
                     content |-> inputText, type |-> "text", mediaData |-> No,
                     encrypted |-> No, expiresAt |-> calculateExpiresAt(chat.ttl, now)]
         newHistory == Append(chat.messages, userMsg)
     IN  /\ nextIv + IvNeed(newHistory) - 1 <= MaxIv
         /\ chat' = [chat EXCEPT !.messages = newHistory, !.isLoading = TRUE]
         /\ saves' = saves \cup {legacySaveToStorage(newHistory, The(cryptoKey), nextIv, No)}
         /\ nextIv' = nextIv + IvNeed(newHistory)
         /\ replies' = replies \cup
              {[newHistory |-> newHistory, key |-> The(cryptoKey), ttl |-> chat.ttl,
                live |-> TRUE]}
  /\ UNCHANGED <<ls, currentView, cryptoKey, activeContact, lock, auths, loads, contactSaves,
                 now, nextSalt, cr, exported, cloud, notice, swept, tools, profileSaves, profile>>

\* handleSendText after sendMessageToGemini has resolved: the reply joins
\* the list captured at send time, and that list is shown and saved.
legacyHandleSendReply(r, responseText) ==
  /\ LET botMsg == [id |-> ToString(now + 1), role |-> "model", timestamp |-> now,
                    content |-> responseText, type |-> "text", mediaData |-> No,
                    encrypted |-> No, expiresAt |-> calculateExpiresAt(r.ttl, now)]
         finalHistory == Append(r.newHistory, botMsg)
     IN  /\ nextIv + IvNeed(finalHistory) - 1 <= MaxIv
         /\ chat' = IF r.live
                    THEN [chat EXCEPT !.messages = finalHistory, !.isLoading = FALSE]
                    ELSE chat
         /\ saves' = saves \cup {legacySaveToStorage(finalHistory, r.key, nextIv, No)}
         /\ nextIv' = nextIv + IvNeed(finalHistory)
  /\ replies' = replies \ {r}
  /\ UNCHANGED <<ls, currentView, cryptoKey, activeContact, lock, auths, loads, contactSaves,
                 now, nextSalt, cr, exported, cloud, notice, swept, tools, profileSaves, profile>>

\* saveToStorage after its await: the stored collection is replaced.
legacySaveWritten(s) ==
  /\ ls' = [ls EXCEPT !.history = Some(s.encryptedHistory)]
  /\ saves' = saves \ {s}
  /\ swept' = IF s.sweep # No /\ (swept = No \/ The(s.sweep) > The(swept)) THEN s.sweep
              ELSE swept
  /\ UNCHANGED <<currentView, cryptoKey, activeContact, lock, auths, chat, replies, loads,
                 contactSaves, now, nextIv, nextSalt, cr, exported, cloud, notice, tools, profileSaves, profile>>

\* The interval callback with syncStorageAfterPrune given the list as it
\* was before the filter.
expirationCheckSavesUnpruned ==
  /\ ChatShown
  /\ LET Active(m) == NotExpired(m, now)
         activeMessages == SelectSeq(chat.messages, Active)
     IN  IF Len(activeMessages) # Len(chat.messages)
         THEN /\ nextIv + IvNeed(chat.messages) - 1 <= MaxIv
              /\ chat' = [chat EXCEPT !.messages = activeMessages]
              /\ saves' = saves \cup
                   {legacySaveToStorage(chat.messages, The(cryptoKey), nextIv, Some(now))}
              /\ nextIv' = nextIv + IvNeed(chat.messages)
         ELSE UNCHANGED <<chat, saves, nextIv>>
  /\ UNCHANGED <<ls, currentView, cryptoKey, activeContact, lock, auths, replies, loads,
                 contactSaves, now, nextSalt, cr, exported, cloud, notice, swept, tools, profileSaves, profile>>

\* A run of the expiration checker's interval callback.  When some message
\* has expired the list is pruned and syncStorageAfterPrune saves the
\* pruned list; otherwise the callback returns the list it was given.
expirationCheck ==
  /\ ChatShown
  /\ LET Active(m) == NotExpired(m, now)
         activeMessages == SelectSeq(chat.messages, Active)
         hasExpired == \E i \in 1..Len(chat.messages) : ~NotExpired(chat.messages[i], now)
     IN  IF hasExpired
         THEN /\ nextIv + IvNeed(activeMessages) - 1 <= MaxIv
              /\ chat' = [chat EXCEPT !.messages = activeMessages]
              /\ saves' = saves \cup
                   {legacySaveToStorage(activeMessages, The(cryptoKey), nextIv, Some(now))}
              /\ nextIv' = nextIv + IvNeed(activeMessages)
         ELSE UNCHANGED <<chat, saves, nextIv>>
  /\ UNCHANGED <<ls, currentView, cryptoKey, activeContact, lock, auths, replies, loads,
                 contactSaves, now, nextSalt, cr, exported, cloud, notice, swept, tools, profileSaves, profile>>

(***************************************************************************)
(* Settings: the backup file and the cloud backup.  A backup, whether a    *)
(* file or the cloud document, is a text that JSON.parse accepts or not;   *)
(* a parsed one has a data section or not; the section gives each blob a   *)
(* value or null, and `blank` names the blobs it gives as the empty        *)
(* string.  The blobs are copied as localStorage holds them.               *)
(***************************************************************************)
BlobNames == {"salt", "profile", "contacts", "history", "canary"}

\* `if (backup.data.x)`: the blob is there and is not the empty string.
Carried(backup, name) == The(backup.data)[name] # No /\ name \notin backup.blank

\* The `if (...) localStorage.setItem(...)` lines for the blobs in names.
restoreKeys(storage, backup, names) ==
  [name \in BlobNames |->
     IF name \in names /\ Carried(backup, name) THEN The(backup.data)[name]
     ELSE storage[name]]

\* An export that leaves the history out of the file.
exportBackupNoHistory(storage) ==
  [parses |-> TRUE, blank |-> {},
   data |-> Some([salt |-> storage.salt, profile |-> storage.profile,
                  contacts |-> storage.contacts, history |-> No,
                  canary |-> storage.canary])]

\* handleExportBackup: the object that becomes the downloaded file.
exportBackup(storage) ==
  [parses |-> TRUE, blank |-> {},
   data |-> Some([salt |-> storage.salt, profile |-> storage.profile,
                  contacts |-> storage.contacts, history |-> storage.history,
                  canary |-> storage.canary])]

\* An import check that accepts any file with a data section.
importValidAnySalt(backup) == backup.parses /\ backup.data # No

\* handleImportBackup: JSON.parse and the "Basic validation".
importValid(backup) == backup.parses /\ backup.data # No /\ Carried(backup, "salt")

\* A restore that sets the file's blobs over the current ones.
importRestoreNoClear(storage, backup) == restoreKeys(storage, backup, BlobNames)

\* handleImportBackup: `localStorage.clear()` and "Restore keys".
importRestore(storage, backup) == restoreKeys(EmptyStorage, backup, BlobNames)

\* A payload that also holds the key of the session.
backupPayloadWithKey(storage, t) ==
  [parses |-> TRUE, blank |-> {}, lastUpdated |-> t,
   data |-> Some([salt |-> storage.salt, profile |-> storage.profile,
                  contacts |-> storage.contacts, history |-> storage.history,
                  canary |-> cryptoKey])]

\* syncUpToCloud: backupPayload, as the document's encryptedData.
backupPayload(storage, t) ==
  [parses |-> TRUE, blank |-> {}, lastUpdated |-> t,
   data |-> Some([salt |-> storage.salt, profile |-> storage.profile,
                  contacts |-> storage.contacts, history |-> storage.history,
                  canary |-> No])]

PushOutcomes == {"ok", "notConnected", "network"}
PullOutcomes == {"ok", "notConnected", "network"}

\* A download that empties the local storage before it fetches.
syncDownFromCloudClearsFirst(storage, doc, outcome) ==
  IF outcome # "ok" \/ doc = No \/ ~The(doc).parses
  THEN [ok |-> FALSE, ls |-> EmptyStorage]
  ELSE [ok |-> TRUE,
        ls |-> restoreKeys(EmptyStorage, The(doc), {"profile", "contacts", "history", "salt"})]

\* syncDownFromCloud: it throws when the database is not connected, when
\* getDoc fails, when there is no document and when JSON.parse fails (also
\* on the property read of a parsed null); otherwise it sets the blobs the
\* payload carries and returns true.
syncDownFromCloud(storage, doc, outcome) ==
  IF outcome # "ok" \/ doc = No \/ ~The(doc).parses \/ The(doc).data = No
  THEN [ok |-> FALSE, ls |-> storage]
  ELSE [ok |-> TRUE,
        ls |-> restoreKeys(storage, The(doc), {"profile", "contacts", "history", "salt"})]

ImportFailedNotice == "Import failed: Invalid file or corrupted data."
ImportDoneNotice == "Backup restored successfully. The application will now reload."
SyncDoneNotice == "Encrypted Vault Synced to Cloud Successfully."
SyncFailedNotice == "Sync Failed. See console."
RestoreDoneNotice == "Restore Complete. Reloading..."
RestoreFailedNotice == "Restore Failed. No backup found."
ConnectionFailedNotice == "Connection Failed: Check Firebase Config"

\* window.location.reload() has been called and the page is still there.
Reloading == notice \in {ImportDoneNotice, RestoreDoneNotice}

SettingsShown == ~LockScreenShown /\ currentView = "SETTINGS"

\* Backups that do not come from this vault.
ForeignSalt == Some(bufToBase64(MaxSalt))
ForeignProfile == Some([id |-> "peer"])
NoData == [salt |-> No, profile |-> No, contacts |-> No, history |-> No, canary |-> No]
Unparseable == [parses |-> FALSE, blank |-> {}, data |-> No]
ForeignFiles ==
  { Unparseable,
    [parses |-> TRUE, blank |-> {}, data |-> No],
    [parses |-> TRUE, blank |-> {}, data |-> Some([NoData EXCEPT !.history = Some(<<>>)])],
    [parses |-> TRUE, blank |-> {"salt"},
     data |-> Some([NoData EXCEPT !.salt = ForeignSalt, !.profile = ForeignProfile])],
    [parses |-> TRUE, blank |-> {},
     data |-> Some([NoData EXCEPT !.salt = ForeignSalt, !.profile = ForeignProfile])],
    [parses |-> TRUE, blank |-> {"profile"},
     data |-> Some([NoData EXCEPT !.salt = ForeignSalt, !.profile = ForeignProfile,
                                  !.canary = Some("active")])] }
ForeignDocs ==
  { Unparseable,
    [parses |-> TRUE, blank |-> {}, data |-> Some([NoData EXCEPT !.history = Some(<<>>)])] }

\* A backup whose history is not the JSON text of an array.
GarbledFiles ==
  { [parses |-> TRUE, blank |-> {},
     data |-> Some([NoData EXCEPT !.salt = ForeignSalt, !.history = Some(Garbled)])] }

\* The files the user can choose: the downloaded backup, or a foreign one.
Files == ForeignFiles \cup (IF exported = No THEN {} ELSE {The(exported)})

handleExportBackup ==
  /\ SettingsShown
  /\ exported' = Some(exportBackup(ls))
  /\ exported' # exported
  /\ UNCHANGED <<ls, currentView, cryptoKey, activeContact, lock, auths, chat, saves,
                 replies, loads, contactSaves, now, nextIv, nextSalt, cr,
                 cloud, notice, swept, tools, profileSaves, profile>>

\* handleImportBackup with the confirmation given (a refused confirmation
\* changes nothing); the reload it ends with is pageReloaded.
handleImportBackup(file) ==
  /\ SettingsShown
  /\ IF importValid(file)
     THEN /\ ls' = importRestore(ls, file)
          /\ notice' = ImportDoneNotice
     ELSE /\ ls' = ls
          /\ notice' = ImportFailedNotice
  /\ UNCHANGED <<currentView, cryptoKey, activeContact, lock, auths, chat, saves,
                 replies, loads, contactSaves, now, nextIv, nextSalt, cr,
                 exported, cloud, swept, tools, profileSaves, profile>>

\* The page is loaded again: App and its components start over, and what
\* the old page was still waiting for is gone with it.
pageReloaded ==
  /\ Reloading
  /\ currentView' = "LOCK_SCREEN"
  /\ cryptoKey' = No
  /\ activeContact' = No
  /\ lock' = LockScreenMount(ls)
  /\ auths' = {}
  /\ chat' = ChatGone
  /\ saves' = {}
  /\ replies' = {}
  /\ loads' = {}
  /\ contactSaves' = {}
  /\ cloud' = [cloud EXCEPT !.user = FALSE]
  /\ notice' = ""
  /\ profileSaves' = {}
  /\ profile' = No
  /\ UNCHANGED <<ls, now, nextIv, nextSalt, cr, exported, swept, tools>>

\* handleCloudLogin: signInToCloud succeeds or throws.
handleCloudLogin(ok) ==
  /\ SettingsShown
  /\ IF ok THEN cloud' = [cloud EXCEPT !.user = TRUE] /\ notice' = notice
     ELSE cloud' = cloud /\ notice' = ConnectionFailedNotice
  /\ <<cloud', notice'>> # <<cloud, notice>>
  /\ UNCHANGED <<ls, currentView, cryptoKey, activeContact, lock, auths, chat, saves,
                 replies, loads, contactSaves, now, nextIv, nextSalt, cr,
                 exported, swept, tools, profileSaves, profile>>

\* handleCloudSync with syncUpToCloud.
handleCloudSync(outcome) ==
  /\ SettingsShown
  /\ cloud.user
  /\ profile # No
  /\ IF outcome = "ok"
     THEN /\ cloud' = setDoc(cloud, The(profile), backupPayload(ls, now))
          /\ notice' = SyncDoneNotice
     ELSE /\ cloud' = cloud
          /\ notice' = SyncFailedNotice
  /\ UNCHANGED <<ls, currentView, cryptoKey, activeContact, lock, auths, chat, saves,
                 replies, loads, contactSaves, now, nextIv, nextSalt, cr,
                 exported, swept, tools, profileSaves, profile>>

\* handleCloudRestore with the confirmation given; the reload it ends with
\* on success is pageReloaded.
handleCloudRestore(outcome) ==
  /\ SettingsShown
  /\ cloud.user
  /\ profile # No
  /\ LET r == syncDownFromCloud(ls, docOf(cloud, The(profile)), outcome)
     IN  /\ ls' = r.ls
         /\ notice' = IF r.ok THEN RestoreDoneNotice ELSE RestoreFailedNotice
  /\ UNCHANGED <<currentView, cryptoKey, activeContact, lock, auths, chat, saves,
                 replies, loads, contactSaves, now, nextIv, nextSalt, cr,
                 exported, cloud, swept, tools, profileSaves, profile>>

\* Another device, or anyone who can write the document users/<remoteId>,
\* stores doc there.
remoteWrite(remoteId, doc) ==
  /\ docOf(cloud, remoteId) # Some(doc)
  /\ cloud' = setDoc(cloud, remoteId, doc)
  /\ UNCHANGED <<ls, currentView, cryptoKey, activeContact, lock, auths, chat, saves,
                 replies, loads, contactSaves, now, nextIv, nextSalt, cr,
                 exported, notice, swept, tools, profileSaves, profile>>

(***************************************************************************)
(* CryptoTools (the Tools view).  A text of the input or the output field  *)
(* is either plain, a sequence of code units without a colon, or a         *)
(* sequence of parts, the pieces between the colons of the text.           *)
(***************************************************************************)
PlainText(units) == [kind |-> "plain", units |-> units, parts |-> <<>>]
PartsText(parts) == [kind |-> "parts", units |-> <<>>, parts |-> parts]

ToolPasswords == {"", "p1", "p2"}
ErrorText == "Error: Operation failed. Check password or format."

\* text.split(':')
split(text) == IF text.kind = "plain" THEN <<text.units>> ELSE text.parts

\* `!text`
IsEmptyText(text) == text.kind = "plain" /\ text.units = <<>>

\* atob accepts the part.
IsBase64(part) == DOMAIN part = {"b64"}

\* A payload that carries the salt of the vault.
payloadVaultSalt(salt, enc) ==
  PartsText(<<"sl1", The(ls.salt), enc.iv, enc.ciphertext>>)

\* `sl1:${bufToBase64(salt)}:${iv}:${ciphertext}`
payload(salt, enc) ==
  PartsText(<<"sl1", bufToBase64(salt), enc.iv, enc.ciphertext>>)

\* The ENCRYPT branch of handleProcess.
toolsEncrypt(text, password, salt, iv) ==
  payload(salt, encryptMessage(text.units, deriveKey(password, salt), iv))

\* The DECRYPT branch of handleProcess, with the catch of handleProcess
\* and that of decryptMessage.
toolsDecrypt(text, password) ==
  LET parts == split(text)
  IN  IF Len(parts) # 4 \/ parts[1] # "sl1" THEN PlainText(<<ErrorText>>)
      ELSE IF ~IsBase64(parts[2]) THEN PlainText(<<ErrorText>>)
      ELSE IF ~IsBase64(parts[3]) \/ ~IsBase64(parts[4]) THEN PlainText(Placeholder)
      ELSE PlainText(decryptMessage(parts[4], parts[3],
                                    deriveKey(password, base64ToBuf(parts[2]))))

\* CryptoTools' useState initial values.
ToolsMount ==
  [stage |-> "shown", activeTab |-> "ENCRYPT", text |-> PlainText(<<>>), password |-> "",
   result |-> PlainText(<<>>), isProcessing |-> FALSE, pending |-> No, made |-> No]

\* What the user can put into the input field: a plain text, the payload of
\* the output field, or that payload damaged.
InputsOf(result) ==
  {PlainText(u) : u \in Plaintexts}
    \cup (IF result.kind # "parts" THEN {}
          ELSE { result,
                 PartsText(SubSeq(result.parts, 1, 3)),
                 PartsText([result.parts EXCEPT ![1] = "sl2"]),
                 PartsText([result.parts EXCEPT ![2] = [bad |-> TRUE]]) })

\* An unlocked vault with the Tools view open.
InitTools ==
  /\ ls = [EmptyStorage EXCEPT !.salt = Some(bufToBase64(1)), !.canary = Some("active")]
  /\ currentView = "TOOLS"
  /\ cryptoKey = Some(deriveKey("p1", 1))
  /\ activeContact = No
  /\ lock = LockScreenGone
  /\ auths = {}
  /\ chat = ChatGone
  /\ saves = {}
  /\ replies = {}
  /\ loads = {}
  /\ contactSaves = {}
  /\ now = 0
  /\ nextIv = 1
  /\ nextSalt = 2
  /\ cr = CrIdle
  /\ exported = No
  /\ cloud = CloudEmpty
  /\ notice = ""
  /\ swept = No
  /\ tools = ToolsMount
  /\ profileSaves = {}
  /\ profile = No

setActiveTab(tab) ==
  /\ tools.activeTab # tab
  /\ tools' = [tools EXCEPT !.activeTab = tab]
  /\ UNCHANGED <<ls, currentView, cryptoKey, activeContact, lock, auths, chat, saves,
                 replies, loads, contactSaves, now, nextIv, nextSalt, cr,
                 exported, cloud, notice, swept, profileSaves, profile>>

setText(text) ==
  /\ tools.text # text
  /\ tools' = [tools EXCEPT !.text = text]
  /\ UNCHANGED <<ls, currentView, cryptoKey, activeContact, lock, auths, chat, saves,
                 replies, loads, contactSaves, now, nextIv, nextSalt, cr,
                 exported, cloud, notice, swept, profileSaves, profile>>

setPassword(password) ==
  /\ tools.password # password
  /\ tools' = [tools EXCEPT !.password = password]
  /\ UNCHANGED <<ls, currentView, cryptoKey, activeContact, lock, auths, chat, saves,
                 replies, loads, contactSaves, now, nextIv, nextSalt, cr,
                 exported, cloud, notice, swept, profileSaves, profile>>

\* handleProcess up to its first await; the button is disabled while
\* isProcessing.  The texts encrypted are plain texts.
handleProcess ==
  /\ ~tools.isProcessing
  /\ ~IsEmptyText(tools.text) /\ tools.password # ""
  /\ IF tools.activeTab = "ENCRYPT"
     THEN /\ tools.text.kind = "plain"
          /\ nextSalt <= MaxSalt
          /\ nextSalt' = nextSalt + 1
          /\ tools' = [tools EXCEPT !.isProcessing = TRUE, !.result = PlainText(<<>>),
                         !.pending = Some([activeTab |-> "ENCRYPT", text |-> tools.text,
                                           password |-> tools.password, salt |-> nextSalt])]
     ELSE /\ nextSalt' = nextSalt
          /\ tools' = [tools EXCEPT !.isProcessing = TRUE, !.result = PlainText(<<>>),
                         !.pending = Some([activeTab |-> "DECRYPT", text |-> tools.text,
                                           password |-> tools.password, salt |-> 0])]
  /\ UNCHANGED <<ls, currentView, cryptoKey, activeContact, lock, auths, chat, saves,
                 replies, loads, contactSaves, now, nextIv, cr,
                 exported, cloud, notice, swept, profileSaves, profile>>

\* handleProcess after its awaits, on the tab, text and password it was
\* called with.  made keeps the inputs and the payload of the last encryption.
handleProcessDone ==
  /\ tools.pending # No
  /\ LET c == The(tools.pending)
     IN  IF c.activeTab = "ENCRYPT"
         THEN /\ nextIv <= MaxIv
              /\ nextIv' = nextIv + 1
              /\ LET result == toolsEncrypt(c.text, c.password, c.salt, nextIv)
                 IN  tools' = [tools EXCEPT !.isProcessing = FALSE, !.pending = No,
                                 !.result = result,
                                 !.made = Some([text |-> c.text, password |-> c.password,
                                                payload |-> result])]
         ELSE /\ nextIv' = nextIv
              /\ tools' = [tools EXCEPT !.isProcessing = FALSE, !.pending = No,
                             !.result = toolsDecrypt(c.text, c.password)]
  /\ UNCHANGED <<ls, currentView, cryptoKey, activeContact, lock, auths, chat, saves,
                 replies, loads, contactSaves, now, nextSalt, cr,
                 exported, cloud, notice, swept, profileSaves, profile>>

NextTools ==
  \/ \E tab \in {"ENCRYPT", "DECRYPT"} : setActiveTab(tab)
  \/ \E text \in InputsOf(tools.result) : setText(text)
  \/ \E password \in ToolPasswords : setPassword(password)
  \/ handleProcess
  \/ handleProcessDone

SpecTools == InitTools /\ [][NextTools]_vars

(***************************************************************************)
(* The crypto specification: encryptMessage and decryptMessage on inputs   *)
(* drawn from Plaintexts and Keys, with the ciphertext or the IV changed   *)
(* in transit or another key used to decrypt.                              *)
(***************************************************************************)
Ivs == {1, 2}
Tampers == {"none", "ciphertext", "iv"}

cryptoEncrypt(iv) ==
  /\ cr.stage = "input"
  /\ cr' = [stage |-> "encrypted", P |-> cr.P, K |-> cr.K, iv |-> iv,
            enc |-> encryptMessage(cr.P, cr.K, iv)]
  /\ UNCHANGED <<ls, currentView, cryptoKey, activeContact, lock, auths, chat, saves,
                 replies, loads, contactSaves, now, nextIv, nextSalt,
                 exported, cloud, notice, swept, tools, profileSaves, profile>>

cryptoDecrypt(key, tamper) ==
  /\ cr.stage = "encrypted"
  /\ LET flipped == [base64ToBuf(cr.enc.ciphertext) EXCEPT !.flips = 1]
         ciphertext == IF tamper = "ciphertext" THEN bufToBase64(flipped) ELSE cr.enc.ciphertext
         iv == IF tamper = "iv"
               THEN bufToBase64(CHOOSE other \in Ivs : other # cr.iv)
               ELSE cr.enc.iv
     IN  cr' = [stage |-> "decrypted", P |-> cr.P, K |-> cr.K, iv |-> cr.iv, enc |-> cr.enc,
                K2 |-> key, tamper |-> tamper, out |-> decryptMessage(ciphertext, iv, key)]
  /\ UNCHANGED <<ls, currentView, cryptoKey, activeContact, lock, auths, chat, saves,
                 replies, loads, contactSaves, now, nextIv, nextSalt,
                 exported, cloud, notice, swept, tools, profileSaves, profile>>

InitCrypto ==
  /\ ls = EmptyStorage
  /\ currentView = "LOCK_SCREEN"
  /\ cryptoKey = No
  /\ activeContact = No
  /\ lock = LockScreenMount(EmptyStorage)
  /\ auths = {}
  /\ chat = ChatGone
  /\ saves = {}
  /\ replies = {}
  /\ loads = {}
  /\ contactSaves = {}
  /\ now = 0
  /\ nextIv = 1
  /\ nextSalt = 1
  /\ cr \in {[stage |-> "input", P |-> p, K |-> k] : p \in Plaintexts, k \in Keys}
  /\ exported = No
  /\ cloud = CloudEmpty
  /\ notice = ""
  /\ swept = No
  /\ tools = ToolsGone
  /\ profileSaves = {}
  /\ profile = No

NextCrypto ==
  \/ \E iv \in Ivs : cryptoEncrypt(iv)
  \/ \E key \in Keys, tamper \in Tampers : cryptoDecrypt(key, tamper)

SpecCrypto == InitCrypto /\ [][NextCrypto]_vars

(***************************************************************************)
(* The vault specifications.  Spec has every operation of App, LockScreen, *)
(* ChatInterface and Contacts.  SpecStore is one session of the            *)
(* conversation store: a vault is set up and used, and is not locked or    *)
(* reset; SpecStoreTtl adds the TTL menu to it and SpecStoreClear the      *)
(* clear button.  SpecRelock is the chat with lock and reset.              *)
(* SpecSession is the session life cycle without the chat: setup, unlock,  *)
(* lock, reset, navigation, contacts.  SpecSweeper is the older            *)
(* ChatInterface with its expiration checker.  SpecBackup is the chat with *)
(* the backup file of Settings, SpecCloudBackup the chat with the cloud    *)
(* backup.  SpecPush is the cloud push over a vault with contacts,         *)
(* SpecParseFailure the chat over a history blob restored from a garbled   *)
(* backup, SpecIsolation the contacts and the chat across vaults with      *)
(* different keys, and SpecTools the CryptoTools panel of Contacts.        *)
(* SpecCipher is the chat with audio messages and the profile of Settings, *)
(* SpecSwitch the chat of a vault that already has a contact,              *)
(* SpecAddressBook the contacts with their deletion, and SpecIdentity the  *)
(* sessions of Settings over one vault with the profile and the cloud.     *)
(***************************************************************************)
NextUnlock ==
  \/ \E p \in (IF lock.mode = "SETUP" THEN SetupPasswords ELSE Passwords) : handleAuth(p)
  \/ \E a \in auths : handleAuthSetup(a)
  \/ \E a \in auths : handleUnlock(a)

NextLock ==
  \/ \E a \in auths : handleAuthLogin(a)
  \/ handleReset
  \/ handleLock

NextNavigate ==
  \/ handleGlobalChat
  \/ \E view \in {"CONTACTS", "SETTINGS"} : setCurrentView(view, FirstId)
  \/ \E c \in ContactIds(ls) : handleChatStart(c)

NextContacts ==
  \/ \E n \in ContactNames : handleSaveContact(n, <<>>)
  \/ \E c \in contactSaves : contactStored(c)

NextChat ==
  \/ \E t \in InputTexts : handleSendText(t)
  \/ \E s \in saves : saveWritten(s)
  \/ \E r \in replies, t \in ReplyTexts : handleSendResponse(r, t)
  \/ \E l \in loads : messagesLoaded(l)
  \/ Tick

NextTtl == \E value \in TtlOptions : setTtl(value)

NextAudio == \E a \in AudioData : handleSendAudio(a)

NextProfile ==
  \/ \E n \in ProfileTexts, b \in ProfileTexts : handleSave(n, b)
  \/ \E p \in profileSaves : profileStored(p)

NextClear == handleClear

NextSweeper ==
  \/ \E p \in (IF lock.mode = "SETUP" THEN SetupPasswords ELSE Passwords) : handleAuth(p)
  \/ \E a \in auths : handleAuthSetup(a)
  \/ \E a \in auths : legacyHandleUnlock(a)
  \/ \E view \in {"CHAT", "SETTINGS"} : legacySetCurrentView(view, FirstId)
  \/ \E l \in loads : legacyMessagesLoaded(l)
  \/ \E value \in TtlOptions : setTtl(value)
  \/ \E t \in InputTexts : legacyHandleSendText(t)
  \/ \E r \in replies, t \in ReplyTexts : legacyHandleSendReply(r, t)
  \/ \E s \in saves : legacySaveWritten(s)
  \/ expirationCheck
  \/ Tick

\* What the page is waiting for goes on while the page reloads.
NextPending ==
  \/ \E s \in saves : saveWritten(s)
  \/ \E r \in replies, t \in ReplyTexts : handleSendResponse(r, t)
  \/ \E l \in loads : messagesLoaded(l)
  \/ pageReloaded

\* What the user does waits while the page reloads.
NextUser ==
  \/ \E p \in (IF lock.mode = "SETUP" THEN SetupPasswords ELSE Passwords) :
       ~Reloading /\ handleAuth(p)
  \/ \E a \in auths : ~Reloading /\ handleAuthSetup(a)
  \/ \E a \in auths : ~Reloading /\ handleAuthLogin(a)
  \/ \E a \in auths : ~Reloading /\ handleUnlock(a)
  \/ ~Reloading /\ handleGlobalChat
  \/ \E view \in {"CONTACTS", "SETTINGS"} : ~Reloading /\ setCurrentView(view, FirstId)
  \/ \E t \in InputTexts : ~Reloading /\ handleSendText(t)

NextFile ==
  \/ ~Reloading /\ handleExportBackup
  \/ \E file \in Files : ~Reloading /\ handleImportBackup(file)

NextCloud ==
  \/ \E ok \in BOOLEAN : ~Reloading /\ handleCloudLogin(ok)
  \/ \E outcome \in PushOutcomes : ~Reloading /\ handleCloudSync(outcome)
  \/ \E outcome \in PullOutcomes : ~Reloading /\ handleCloudRestore(outcome)
  \/ \E doc \in ForeignDocs : remoteWrite(FirstId, doc)

NextBackup == NextUser \/ NextFile \/ NextPending
NextCloudBackup == NextUser \/ NextCloud \/ NextPending

\* The Settings sessions of one vault: it is set up, locked and unlocked,
\* its profile is saved, and it is pushed to and pulled from the cloud, by
\* this device only.
NextIdentity ==
  \/ \E p \in (IF lock.mode = "SETUP" THEN SetupPasswords ELSE Passwords) :
       ~Reloading /\ handleAuth(p)
  \/ \E a \in auths : ~Reloading /\ handleAuthSetup(a)
  \/ \E a \in auths : ~Reloading /\ handleAuthLogin(a)
  \/ \E a \in auths : ~Reloading /\ handleUnlock(a)
  \/ ~Reloading /\ handleLock
  \/ ~Reloading /\ handleGlobalChat
  \/ \E view \in {"CONTACTS", "SETTINGS"}, generated \in GeneratedIds :
       ~Reloading /\ setCurrentView(view, generated)
  \/ \E n \in ProfileTexts, b \in ProfileTexts : ~Reloading /\ handleSave(n, b)
  \/ \E q \in profileSaves : profileStored(q)
  \/ \E ok \in BOOLEAN : ~Reloading /\ handleCloudLogin(ok)
  \/ \E outcome \in PushOutcomes : ~Reloading /\ handleCloudSync(outcome)
  \/ \E outcome \in PullOutcomes : ~Reloading /\ handleCloudRestore(outcome)
  \/ pageReloaded

SpecIdentity == Init /\ [][NextIdentity]_vars

\* The chat over a vault restored from a backup with a garbled history.
NextParseFailure ==
  \/ NextUser
  \/ \E file \in GarbledFiles : ~Reloading /\ handleImportBackup(file)
  \/ ~Reloading /\ handleClear
  \/ NextPending

\* The session life cycle with contacts and a chat whose replies stay out.
NextIsolation ==
  \/ NextUnlock
  \/ NextLock
  \/ NextNavigate
  \/ NextContacts
  \/ \E t \in InputTexts : handleSendText(t)
  \/ \E s \in saves : saveWritten(s)
  \/ \E l \in loads : messagesLoaded(l)

\* The session life cycle with the cloud upload and the clock.
NextPush ==
  \/ NextUnlock
  \/ NextLock
  \/ NextNavigate
  \/ NextContacts
  \/ \E ok \in BOOLEAN : handleCloudLogin(ok)
  \/ \E outcome \in PushOutcomes : handleCloudSync(outcome)
  \/ Tick

Next ==
  NextUnlock \/ NextLock \/ NextNavigate \/ NextContacts \/ NextChat \/ NextTtl \/ NextClear
NextRelock ==
  \/ NextUnlock
  \/ NextLock
  \/ handleGlobalChat
  \/ \E view \in {"CONTACTS", "SETTINGS"} : setCurrentView(view, FirstId)
  \/ NextChat
NextStore == NextUnlock \/ NextNavigate \/ NextContacts \/ NextChat
NextStoreTtl == NextUnlock \/ NextNavigate \/ NextContacts \/ NextChat \/ NextTtl
NextStoreClear == NextUnlock \/ NextNavigate \/ NextContacts \/ NextChat \/ NextClear
NextSession == NextUnlock \/ NextLock \/ NextNavigate \/ NextContacts

Spec == Init /\ [][Next]_vars
SpecStore == Init /\ [][NextStore]_vars
SpecStoreTtl == Init /\ [][NextStoreTtl]_vars
SpecStoreClear == Init /\ [][NextStoreClear]_vars
SpecRelock == Init /\ [][NextRelock]_vars
SpecSweeper == Init /\ [][NextSweeper]_vars
SpecBackup == Init /\ [][NextBackup]_vars
SpecCloudBackup == Init /\ [][NextCloudBackup]_vars
SpecPush == Init /\ [][NextPush]_vars
SpecIsolation == Init /\ [][NextIsolation]_vars
SpecParseFailure == Init /\ [][NextParseFailure]_vars
SpecSession == Init /\ [][NextSession]_vars

NextCipher ==
  \/ NextUnlock
  \/ NextLock
  \/ NextNavigate
  \/ NextContacts
  \/ \E t \in InputTexts : handleSendText(t)
  \/ NextAudio
  \/ \E s \in saves : saveWritten(s)
  \/ \E r \in replies, t \in ReplyTexts : handleSendResponse(r, t)
  \/ \E l \in loads : messagesLoaded(l)
  \/ NextProfile

SpecCipher == Init /\ [][NextCipher]_vars

NextDelete == \E id \in ContactIds(ls) : handleDelete(id)

NextAddressBook ==
  \/ NextUnlock
  \/ NextNavigate
  \/ NextContacts
  \/ NextDelete
  \/ NextChat
  \/ NextProfile

SpecAddressBook == Init /\ [][NextAddressBook]_vars

\* The application on its Contacts view, unlocked over a vault that an
\* earlier run has set up and given one contact; the IVs of that contact
\* were drawn in that run.
StoredContact ==
  LET name == encryptMessage(<<"a">>, deriveKey("p1", 1), MaxIv + 1)
      note == encryptMessage(<<>>, deriveKey("p1", 1), MaxIv + 2)
  IN  [id |-> "c1", ciphertextName |-> name.ciphertext, ivName |-> name.iv,
       ciphertextNote |-> note.ciphertext, ivNote |-> note.iv]

InitSwitch ==
  /\ ls = [EmptyStorage EXCEPT !.salt = Some(bufToBase64(1)), !.canary = Some("active"),
                               !.contacts = Some(<<StoredContact>>)]
  /\ currentView = "CONTACTS"
  /\ cryptoKey = Some(deriveKey("p1", 1))
  /\ activeContact = No
  /\ lock = LockScreenGone
  /\ auths = {}
  /\ chat = ChatGone
  /\ saves = {}
  /\ replies = {}
  /\ loads = {}
  /\ contactSaves = {}
  /\ now = 0
  /\ nextIv = 1
  /\ nextSalt = 2
  /\ cr = CrIdle
  /\ exported = No
  /\ cloud = CloudEmpty
  /\ notice = ""
  /\ swept = No
  /\ tools = ToolsGone
  /\ profileSaves = {}
  /\ profile = No

NextSwitch ==
  \/ NextNavigate
  \/ \E t \in InputTexts : handleSendText(t)
  \/ NextAudio
  \/ \E s \in saves : saveWritten(s)
  \/ \E r \in replies, t \in ReplyTexts : handleSendResponse(r, t)
  \/ \E l \in loads : messagesLoaded(l)

SpecSwitch == InitSwitch /\ [][NextSwitch]_vars

(***************************************************************************)
(* Properties of encryptMessage and decryptMessage, under SpecCrypto.      *)
(***************************************************************************)
DecryptedAsEncrypted == cr.stage = "decrypted" /\ cr.K2 = cr.K /\ cr.tamper = "none"
DecryptFailed == cr.stage = "decrypted" /\ (cr.K2 # cr.K \/ cr.tamper # "none")

\* What decryptMessage returns for a ciphertext that encryptMessage made
\* under the same key, over every plaintext and IV.
SuccessResults(key) ==
  {decryptMessage(encryptMessage(p, key, iv).ciphertext, encryptMessage(p, key, iv).iv, key) :
     p \in Plaintexts, iv \in Ivs}

\* C9: when the ciphertext or the IV was changed, or the key is not the one
\* that encrypted, the result of decryptMessage is a failure that no
\* successful decryption can return: no plaintext P has
\* decrypt(encrypt(P, K), K) equal to it.
C9_FailureIsNoPlaintext == DecryptFailed => cr.out \notin SuccessResults(cr.K2)

VaultState ==
  IF cryptoKey # No THEN "UNLOCKED"
  ELSE IF lock.mode = "SETUP" THEN "NO_VAULT" ELSE "HAS_VAULT"

\* The step of handleAuth that persists a new salt.
SetupWrote ==
  \E a \in auths :
    /\ a.pc = "delay" /\ a.mode = "SETUP"
    /\ a \notin auths'
    /\ \E b \in auths' : b.pc = "deriveSetup" /\ b.password = a.password

\* A step of a handleAuth call in LOGIN mode, after its delay.
LoginStepped ==
  \E a \in auths : a.mode = "LOGIN" /\ a.pc = "delay" /\ a \notin auths'

\* C4: the session moves only by setup (NO_VAULT to UNLOCKED, and then a
\* salt is persisted), unlock (HAS_VAULT to UNLOCKED), lock (UNLOCKED to
\* HAS_VAULT, every persisted blob unchanged) and reset (to NO_VAULT, no
\* salt left); a salt is persisted only out of NO_VAULT.
C4_SessionTransitions ==
  [][/\ <<VaultState, VaultState'>> \in
          {<<"NO_VAULT", "NO_VAULT">>, <<"HAS_VAULT", "HAS_VAULT">>, <<"UNLOCKED", "UNLOCKED">>,
           <<"NO_VAULT", "UNLOCKED">>, <<"HAS_VAULT", "UNLOCKED">>, <<"UNLOCKED", "HAS_VAULT">>,
           <<"HAS_VAULT", "NO_VAULT">>, <<"UNLOCKED", "NO_VAULT">>}
     /\ (VaultState = "NO_VAULT" /\ VaultState' = "UNLOCKED" => ls'.salt # No)
     /\ (VaultState = "UNLOCKED" /\ VaultState' = "HAS_VAULT" => ls' = ls)
     /\ (VaultState # "NO_VAULT" /\ VaultState' = "NO_VAULT" => ls'.salt = No)
     /\ (ls'.salt # No /\ ls'.salt # ls.salt => VaultState = "NO_VAULT")]_vars

\* C5: the persisted salt changes only when setup writes it, out of
\* NO_VAULT with no salt persisted, or when reset removes it with every
\* other blob; no step of an unlock attempt changes it.
C5_SaltWrittenOnlyBySetup ==
  [][/\ ls'.salt # ls.salt =>
          \/ ls.salt = No /\ VaultState = "NO_VAULT" /\ SetupWrote
          \/ ls' = EmptyStorage
     /\ LoginStepped => ls'.salt = ls.salt]_vars

\* The vault was unlocked with another password than the one of setup, and
\* the salt the key was derived from is still the persisted one.
C5_UnlockedSaltKept ==
  /\ cryptoKey # No
  /\ The(cryptoKey).pw \notin SetupPasswords
  /\ ls.salt = Some(bufToBase64(The(cryptoKey).salt))

C7_UnlockWithoutSalt ==
  [][\A a \in auths :
       a.mode = "LOGIN" /\ a.pc = "delay" /\ a \notin auths' /\ ls.salt = No =>
         /\ cryptoKey = No /\ cryptoKey' = No
         /\ ls' = ls
         /\ auths' = auths \ {a}
         /\ lock'.mode = "SETUP" /\ ~lock'.isLoading]_vars

\* An unlock attempt has found no salt.
C7_NoSaltReported ==
  /\ lock.error = "Storage corrupted. Reset required."
  /\ lock.mode = "SETUP"
  /\ ls.salt = No
  /\ cryptoKey = No

(***************************************************************************)
(* Properties of the conversation store.                                   *)
(***************************************************************************)
HistoryOf(storage) == IF storage.history = No THEN <<>> ELSE The(storage.history)
ConversationsIn(records) == {ConvOf(records[i]) : i \in 1..Len(records)}
RecordsOf(records, conv) == LET Of(m) == ConvOf(m) = conv IN SelectSeq(records, Of)

\* The records of every conversation but conv are the same in both
\* collections, field by field and in the same order.
OthersKept(before, after, conv) ==
  \A other \in (ConversationsIn(before) \cup ConversationsIn(after)) \ {conv} :
    RecordsOf(after, other) = RecordsOf(before, other)

C2_NoLostUpdate ==
  [][\A s \in saves :
       saves' = saves \ {s} => OthersKept(HistoryOf(ls), HistoryOf(ls'), s.conversationId)]_vars

\* C3: while the session is locked, nothing writes the persisted history,
\* contacts or profile; a reset, which removes every blob, is the one change
\* of storage the lock screen offers.  (Spec)
C3_NoWriteWhileLocked ==
  [][cryptoKey = No /\ cryptoKey' = No =>
       \/ /\ ls'.history = ls.history
          /\ ls'.contacts = ls.contacts
          /\ ls'.profile = ls.profile
       \/ ls' = EmptyStorage]_vars

\* The texts the messages of this model carry.
MessageTexts == InputTexts \cup ReplyTexts \cup {GreetingText}

\* The key a stored record was encrypted under.
KeyOf(m) == base64ToBuf(m.ciphertext).k

\* C8: under the key of an unlock with the password of setup, every stored
\* record of the vault decrypts to the text it was made from; under the key
\* of an unlock with another password, every decrypt of such a record
\* reports a failure, a result no successful decryption gives.  (Spec)
C8_UnlockReplayable ==
  cryptoKey # No =>
    \A i \in 1..Len(HistoryOf(ls)) :
      LET m == HistoryOf(ls)[i]
          key == The(cryptoKey)
          content == decryptMessage(m.ciphertext, m.iv, key)
      IN  /\ KeyOf(m) = key => content \in MessageTexts
          /\ KeyOf(m).salt = key.salt /\ KeyOf(m).pw # key.pw =>
               content \notin SuccessResults(key)

(***************************************************************************)
(* Properties of loadMessages, expiry and handleClear.                     *)
(***************************************************************************)
\* The step in which a loadMessages call hands its result to setMessages.
LoadReturned(l) == l \in loads /\ loads' = loads \ {l} /\ ChatShown'

\* The step in which loadMessages runs and finds no stored collection.
LoadedNothingStored ==
  /\ ChatShown'
  /\ ~ChatShown \/ <<cryptoKey', activeContact'>> # <<cryptoKey, activeContact>>
  /\ ls.history = No

\* The records a load of conversation conv at time t is to return, out of
\* the collection it read.
RecordsToLoad(records, conv, t) ==
  LET Wanted(m) == NotExpired(m, t) /\ ConvOf(m) = conv IN SelectSeq(records, Wanted)

\* The messages are the records, decrypted under key, one for one in order.
MessagesAre(messages, records, key) ==
  /\ Len(messages) = Len(records)
  /\ \A i \in 1..Len(records) :
       /\ messages[i].id = records[i].id
       /\ messages[i].role = records[i].role
       /\ messages[i].timestamp = records[i].timestamp
       /\ messages[i].expiresAt = records[i].expiresAt
       /\ messages[i].conversationId = Some(ConvOf(records[i]))
       /\ messages[i].content = decryptMessage(records[i].ciphertext, records[i].iv, key)

GreetingIds == {"init", "init-contact", "init-global"}

\* C11 as stated: a load returns exactly the records of its conversation
\* that have not expired, out of the collection it read, decrypted and in
\* their stored order, and no message that is not a stored record.  (SpecStoreTtl)
C11_LoadReturnsOnlyRecords ==
  [][/\ \A l \in loads :
          LoadReturned(l) =>
            MessagesAre(chat'.messages,
                        RecordsToLoad(l.encryptedHistory, l.conversationId, l.now), l.key)
     /\ LoadedNothingStored => chat'.messages = <<>>]_vars

\* C11, amended: a load returns exactly those records when there is at
\* least one; when there is none it returns one greeting message, which is
\* not a stored record, and with no collection stored at all a contact
\* conversation gets no message.  (SpecStoreTtl)
C11_LoadReturnsRecordsOrGreeting ==
  [][/\ \A l \in loads :
          LoadReturned(l) =>
            LET records == RecordsToLoad(l.encryptedHistory, l.conversationId, l.now)
            IN  IF records = <<>>
                THEN /\ Len(chat'.messages) = 1
                     /\ chat'.messages[1].id \in GreetingIds
                     /\ chat'.messages[1].conversationId = Some(l.conversationId)
                ELSE MessagesAre(chat'.messages, records, l.key)
     /\ LoadedNothingStored =>
          IF activeContact' = No
          THEN Len(chat'.messages) = 1 /\ chat'.messages[1].id \in GreetingIds
          ELSE chat'.messages = <<>>]_vars

\* A load has returned the records of the shown conversation, and the
\* stored collection holds a record of another conversation.
C11_LoadedAmongOthers ==
  /\ ChatShown /\ loads = {}
  /\ chat.messages # <<>>
  /\ \A i \in 1..Len(chat.messages) : chat.messages[i].encrypted = Some(FALSE)
  /\ \E i \in 1..Len(HistoryOf(ls)) : ConvOf(HistoryOf(ls)[i]) # conversationId(activeContact)

\* The step in which loadMessages runs on a stored collection: the read,
\* the expiry filter and the write-back.
LoadStarted(l) == l \notin loads /\ l \in loads'

\* C12: when a load returns, the persisted collection holds no record that
\* had expired at the load's time, and the records that had not are still
\* there as they were; a load that found nothing expired has written
\* nothing.  (SpecStoreTtl)
C12_PrunedWhenLoadReturns ==
  [][/\ \A l \in loads :
          LoadReturned(l) =>
            \A i \in 1..Len(HistoryOf(ls')) : NotExpired(HistoryOf(ls')[i], l.now)
     /\ \A l \in loads' :
          LoadStarted(l) =>
            /\ HistoryOf(ls') = l.validMessages
            /\ l.validMessages = l.encryptedHistory => ls' = ls]_vars

\* The records with a TTL that have been created for conversation conv and
\* are stored or on their way to storage, with time left at time t.
LiveTimedRecords(conv, t) ==
  LET Live(m) == m.expiresAt # No /\ ConvOf(m) = conv /\ The(m.expiresAt) > t
      stored == {HistoryOf(ls)[i] : i \in 1..Len(HistoryOf(ls))}
      saving == UNION {{s.newEncrypted[i] : i \in 1..Len(s.newEncrypted)} : s \in saves}
  IN  {m \in stored \cup saving : Live(m)}

\* C13: a load of a conversation returns every message of that conversation
\* that was created with a TTL and has time left at the time of the load,
\* and returns no message whose time had run out at the time of the load.
\* (SpecStoreTtl)
C13_TtlDecidesLoad ==
  [][/\ \A l \in loads' :
          LoadStarted(l) =>
            \A m \in LiveTimedRecords(l.conversationId, l.now) :
              \E i \in 1..Len(l.validMessages) : l.validMessages[i].id = m.id
     /\ LoadedNothingStored => LiveTimedRecords(conversationId(activeContact'), now) = {}
     /\ \A l \in loads :
          LoadReturned(l) =>
            \A i \in 1..Len(chat'.messages) : NotExpired(chat'.messages[i], l.now)]_vars

\* C15: a clear of the shown conversation leaves no record of it in the
\* persisted collection and leaves the records of every other conversation
\* as they were.  (SpecStoreClear)
C15_ClearRemovesOneConversation ==
  [][ls'.history # ls.history /\ saves' = saves /\ loads' = loads =>
       LET conv == conversationId(activeContact)
       IN  /\ RecordsOf(HistoryOf(ls'), conv) = <<>>
           /\ OthersKept(HistoryOf(ls), HistoryOf(ls'), conv)
           /\ ls'.history # No]_vars

\* The shown conversation has been cleared, and the persisted collection
\* still holds the records of another conversation.
C15_ClearedAmongOthers ==
  /\ ChatShown /\ loads = {}
  /\ chat.messages = <<>>
  /\ HistoryOf(ls) # <<>>
  /\ RecordsOf(HistoryOf(ls), conversationId(activeContact)) = <<>>

\* C14: once the save of a sweep that ran at time t has been written, the
\* persisted collection holds no record that had expired at t, then or at
\* any later moment.  (SpecSweeper)
C14_SweptStaysOut ==
  swept # No =>
    \A i \in 1..Len(HistoryOf(ls)) : NotExpired(HistoryOf(ls)[i], The(swept))

(***************************************************************************)
(* Properties of the backup file (SpecBackup) and of the cloud backup      *)
(* (SpecCloudBackup).                                                      *)
(***************************************************************************)
VaultBlobs == {"salt", "profile", "contacts", "history"}

\* The value a backup gives a blob, if it gives one that is not empty.
BackupValue(backup, name) ==
  IF The(backup.data)[name] # No /\ name \notin backup.blank THEN The(backup.data)[name]
  ELSE No

MustReject(backup) ==
  \/ ~backup.parses
  \/ backup.data = No
  \/ BackupValue(backup, "salt") = No

\* C16: an import of a file that cannot be parsed, has no data section, or
\* has an absent or empty salt is reported as failed and leaves every
\* persisted blob as it was.  (SpecBackup)
C16_ImportRejects ==
  [][\A file \in Files :
       (handleImportBackup(file) /\ MustReject(file))
         => (ls' = ls /\ notice' = ImportFailedNotice)]_vars

\* C16: a vault with a history has refused an import.
C16_RejectedOverVault ==
  /\ notice = ImportFailedNotice
  /\ ls.salt # No
  /\ ls.history # No

\* C17: an accepted import leaves, in the same step, each blob equal to the
\* file's value, and absent when the file does not carry it.  (SpecBackup)
C17_ImportReplaces ==
  [][\A file \in Files :
       (handleImportBackup(file) /\ ~MustReject(file))
         => /\ notice' = ImportDoneNotice
            /\ \A name \in BlobNames : ls'[name] = BackupValue(file, name)]_vars

\* C17: a foreign backup without a history has replaced a vault that had
\* one when it was exported.
C17_ForeignReplacedVault ==
  /\ notice = ImportDoneNotice
  /\ exported # No
  /\ The(The(exported).data).history # No
  /\ ls.salt = ForeignSalt
  /\ ls.history = No

\* C18: an export changes no persisted blob and its file holds the four
\* blobs as they are; an import of a file that holds the four blobs as they
\* are, in a vault with a salt, leaves the four blobs as they are.
\* (SpecBackup)
C18_BackupRoundTrip ==
  [][/\ exported' # exported
          => /\ ls' = ls
             /\ The(exported').parses /\ The(exported').blank = {}
             /\ \A name \in VaultBlobs : The(The(exported').data)[name] = ls[name]
     /\ \A file \in Files :
          (/\ handleImportBackup(file)
           /\ ls.salt # No
           /\ file.parses /\ file.data # No /\ file.blank = {}
           /\ \A name \in VaultBlobs : The(file.data)[name] = ls[name])
            => /\ notice' = ImportDoneNotice
               /\ \A name \in VaultBlobs : ls'[name] = ls[name]]_vars

\* C18: a vault with a history has imported its own export.
C18_RoundTripDone ==
  /\ notice = ImportDoneNotice
  /\ exported # No
  /\ ls.history # No
  /\ \A name \in VaultBlobs : The(The(exported).data)[name] = ls[name]

\* The document a restore of this Settings session asks for.
pulled == docOf(cloud, The(profile))

\* C19: a restore from the cloud refuses a payload without a non-empty salt
\* and leaves the persisted blobs as they are; otherwise it leaves each of
\* the four blobs equal to the payload's value, and absent when the payload
\* does not carry it.  (SpecCloudBackup)
C19_PullIsImport ==
  [][\A outcome \in PullOutcomes :
       (/\ handleCloudRestore(outcome)
        /\ outcome = "ok" /\ pulled # No /\ The(pulled).parses)
         => IF MustReject(The(pulled))
            THEN ls' = ls /\ notice' = RestoreFailedNotice
            ELSE \A name \in VaultBlobs : ls'[name] = BackupValue(The(pulled), name)]_vars

\* C20: a push that fails, and a restore that fails because the database is
\* not connected, the request fails, there is no document or the document
\* cannot be parsed, is reported and leaves every persisted blob as it was.
\* (SpecCloudBackup)
C20_CloudFailureKeepsLocal ==
  [][/\ \A outcome \in PushOutcomes :
          (handleCloudSync(outcome) /\ outcome # "ok")
            => (ls' = ls /\ notice' = SyncFailedNotice)
     /\ \A outcome \in PullOutcomes :
          (/\ handleCloudRestore(outcome)
           /\ (outcome # "ok" \/ pulled = No \/ ~The(pulled).parses))
            => (ls' = ls /\ notice' = RestoreFailedNotice)]_vars

\* C20: a vault with a history has had a restore fail.
C20_RestoreFailedOverVault ==
  /\ notice = RestoreFailedNotice
  /\ ls.salt # No
  /\ ls.history # No

\* The document an upload is to store: the four blobs and the time.
DocumentOf(storage, t) ==
  [parses |-> TRUE, blank |-> {}, lastUpdated |-> t,
   data |-> Some([name \in BlobNames |->
                    IF name \in VaultBlobs THEN storage[name] ELSE No])]

\* C21: an upload that succeeds stores the document made of the four
\* persisted blobs and the time, whatever the key and the password of the
\* session, and no upload changes a persisted blob.  (SpecPush)
C21_PushSendsBlobsOnly ==
  [][\A outcome \in PushOutcomes :
       handleCloudSync(outcome)
         => /\ ls' = ls
            /\ outcome = "ok" => docOf(cloud', The(profile)) = Some(DocumentOf(ls, now))]_vars

\* C21: a vault with contacts stored under the key of one password has been
\* uploaded in a session unlocked with another password.
C21_PushedUnderOtherKey ==
  /\ notice = SyncDoneNotice
  /\ profile # No
  /\ pulled = Some(DocumentOf(ls, now))
  /\ cryptoKey # No
  /\ ls.contacts # No
  /\ \E i \in 1..Len(The(ls.contacts)) :
       base64ToBuf(The(ls.contacts)[i].ciphertextName).k # The(cryptoKey)

HistoryGarbled(storage) == storage.history # No /\ storage.history = Some(Garbled)

\* C22: over a stored history that is not well-formed, a chat that opens
\* shows no message, a send leaves a save in flight, and a clear leaves a
\* well-formed stored history.  (SpecParseFailure)
C22_GarbledIsEmpty ==
  [][HistoryGarbled(ls) =>
       /\ (ChatShown' /\ ~ChatShown) => chat'.messages = <<>>
       /\ (\E t \in InputTexts : handleSendText(t)) => saves' # saves
       /\ handleClear => ~HistoryGarbled(ls')]_vars

\* The tag of the stored ciphertext verifies under key.
Decryptable(ciphertextBase64, ivBase64, key) ==
  SubtleVerifies(base64ToBuf(ivBase64), key, base64ToBuf(ciphertextBase64))

\* text is what a load is to give for the stored ciphertext: the text whose
\* bytes were encrypted, or the mark of a failed decryption.
LoadedText(text, ciphertextBase64, ivBase64, key) ==
  IF Decryptable(ciphertextBase64, ivBase64, key)
  THEN strToBuf(text) = base64ToBuf(ciphertextBase64).pt
  ELSE text = Placeholder

\* C23: a load of messages and a load of contacts give one entry for every
\* stored record, in order: the text that was encrypted when the record
\* decrypts under the session key, the mark of a failed decryption when it
\* does not.  (SpecIsolation)
C23_DecryptFailuresIsolated ==
  [][/\ \A l \in loads :
          LoadReturned(l) =>
            LET records == RecordsToLoad(l.encryptedHistory, l.conversationId, l.now)
            IN  records # <<>> =>
                  /\ Len(chat'.messages) = Len(records)
                  /\ \A i \in 1..Len(records) :
                       /\ chat'.messages[i].id = records[i].id
                       /\ LoadedText(chat'.messages[i].content, records[i].ciphertext,
                                     records[i].iv, l.key)
     /\ (~LockScreenShown /\ currentView = "CONTACTS") =>
          LET stored == IF ls.contacts = No THEN <<>> ELSE The(ls.contacts)
              contacts == loadContacts(ls, The(cryptoKey))
          IN  /\ Len(contacts) = Len(stored)
              /\ \A i \in 1..Len(stored) :
                   /\ contacts[i].id = stored[i].id
                   /\ LoadedText(contacts[i].name, stored[i].ciphertextName,
                                 stored[i].ivName, The(cryptoKey))
                   /\ LoadedText(contacts[i].note, stored[i].ciphertextNote,
                                 stored[i].ivNote, The(cryptoKey))]_vars

\* C23: the Contacts view is open over two stored contacts of which one
\* decrypts under the session key and one does not.
C23_MixedContactsLoaded ==
  /\ ~LockScreenShown
  /\ currentView = "CONTACTS"
  /\ ls.contacts # No
  /\ \E i, j \in 1..Len(The(ls.contacts)) :
       /\ Decryptable(The(ls.contacts)[i].ciphertextName, The(ls.contacts)[i].ivName,
                      The(cryptoKey))
       /\ ~Decryptable(The(ls.contacts)[j].ciphertextName, The(ls.contacts)[j].ivName,
                       The(cryptoKey))
       /\ loadContacts(ls, The(cryptoKey))[j].name = Placeholder
       /\ loadContacts(ls, The(cryptoKey))[i].name \in ContactNames

\* C24: a reset leaves no persisted blob and the lock screen in SETUP mode;
\* a submit made in SETUP mode is a setup, and a setup stores a salt that
\* generateSalt had not handed out before.  (SpecSession)
C24_ResetWipes ==
  [][/\ handleReset =>
          /\ \A name \in BlobNames : ls'[name] = No
          /\ LockScreenShown' /\ lock'.mode = "SETUP"
     /\ \A p \in Passwords :
          (handleAuth(p) /\ lock.mode = "SETUP") =>
            \E a \in auths' \ auths : a.mode = "SETUP"
     /\ \A a \in auths :
          handleAuthSetup(a) =>
            /\ ls'.salt # No
            /\ base64ToBuf(The(ls'.salt)) >= nextSalt]_vars

\* C24: a vault with contacts was reset and the next submit has set up a
\* vault under a second salt, without the contacts.
C24_SetUpAgainAfterReset ==
  /\ ls.salt = Some(bufToBase64(2))
  /\ ls.canary # No
  /\ ls.contacts = No
  /\ \E i \in 1..MaxIv : i > 2 /\ nextIv = i
  /\ cryptoKey # No

(***************************************************************************)
(* Properties of CryptoTools, under SpecTools.                             *)
(***************************************************************************)
\* The step in which a decryption of CryptoTools gives its result.
ToolDecrypted ==
  /\ tools.pending # No
  /\ The(tools.pending).activeTab = "DECRYPT"
  /\ tools'.pending = No

\* The decryption is of the payload of the last encryption, with its password.
OfMadePayload ==
  /\ tools.made # No
  /\ The(tools.pending).text = The(tools.made).payload
  /\ The(tools.pending).password = The(tools.made).password

\* The input is four parts of which the first is sl1.
HasFormat(text) == Len(split(text)) = 4 /\ split(text)[1] = "sl1"

IvOf(m) == base64ToBuf(m.iv)

\* C26: the write of a save never replaces stored records of its
\* conversation that a save issued after it has written; so when two saves
\* of a conversation have both written, the stored records of the
\* conversation are those of the one issued last.  (SpecStore)
C26_SavesInIssueOrder ==
  [][\A s \in saves :
       saves' = saves \ {s} =>
         LET before == RecordsOf(HistoryOf(ls), s.conversationId)
         IN  \A i \in 1..Len(before), j \in 1..Len(s.newEncrypted) :
               IvOf(before[i]) < IvOf(s.newEncrypted[j])]_vars

\* The saves in flight that an expiration check started.
sweeperSaves == {s \in saves : s.sweep # No}

\* C27: the expiration check never prunes and starts a save while a save
\* started earlier, by a check or by a send, has not yet written; so no two
\* saves started by checks are in flight together.  (SpecSweeper)
C27_SweeperWaitsForSaves ==
  [][expirationCheck => saves = {} /\ Cardinality(sweeperSaves') <= 1]_vars

\* The shown messages that have expired at time t, by position.
expiredAt(msgs, t) ==
  {i \in 1..Len(msgs) : msgs[i].expiresAt # No /\ The(msgs[i].expiresAt) <= t}

\* The messages of msgs at the positions outside gone, in their order.
RECURSIVE without(_, _, _)
without(msgs, gone, i) ==
  IF i > Len(msgs) THEN <<>>
  ELSE (IF i \in gone THEN <<>> ELSE <<msgs[i]>>) \o without(msgs, gone, i + 1)

\* The save s holds the messages msgs, each one encrypted under key.
holds(s, msgs, key) ==
  /\ Len(s.encryptedHistory) = Len(msgs)
  /\ \A i \in 1..Len(msgs) :
       /\ s.encryptedHistory[i].id = msgs[i].id
       /\ s.encryptedHistory[i].expiresAt = msgs[i].expiresAt
       /\ decryptMessage(s.encryptedHistory[i].ciphertext, s.encryptedHistory[i].iv, key)
            = msgs[i].content

\* C28: a run of the expiration check removes from the shown list exactly
\* the messages with expiresAt <= now and starts a save of the messages
\* that remain; a run that finds no such message changes neither the shown
\* list nor the saves, and no run writes the persisted storage itself.
\* (SpecSweeper)
C28_TickPrunesExactlyExpired ==
  [][expirationCheck =>
       LET gone == expiredAt(chat.messages, now)
           surviving == without(chat.messages, gone, 1)
       IN  /\ ls' = ls
           /\ chat'.messages = surviving
           /\ IF gone = {} THEN chat' = chat /\ saves' = saves
              ELSE /\ saves \subseteq saves'
                   /\ \E s \in saves' : /\ s.sweep = Some(now)
                                        /\ holds(s, surviving, The(cryptoKey))]_vars

\* The save started by a check is in flight, and it holds what the check
\* left in the shown list: at least one message, none of them expired at
\* the time of the check.
C28_PrunedAndSaving ==
  /\ ChatShown
  /\ chat.messages # <<>>
  /\ \E s \in sweeperSaves :
       /\ holds(s, chat.messages, The(cryptoKey))
       /\ expiredAt(chat.messages, The(s.sweep)) = {}

\* C29: the expiration check runs only while the chat view is shown, and
\* a save that a check started writes the persisted storage only while the
\* chat view is shown.  (SpecSweeper)
C29_SweeperStopsWithView ==
  [][/\ expirationCheck => ChatShown
     /\ \A s \in sweeperSaves : legacySaveWritten(s) => ChatShown]_vars

\* The message that a send or a reply has just put at the end of the list.
created(c) == c.messages[Len(c.messages)]

\* C30: the user message of a send, and the AI reply when it arrives in the
\* view that sent, is created with expiresAt = its creation time + the ttl
\* chosen at that moment when that ttl is positive, which is later than its
\* timestamp, and with no expiresAt when that ttl is 0.  (SpecStoreTtl)
C30_ExpiresAtFromTtl ==
  [][/\ \A t \in InputTexts :
          handleSendText(t) =>
            /\ created(chat').expiresAt = calculateExpiresAt(chat.ttl, created(chat').timestamp)
            /\ chat.ttl > 0 => The(created(chat').expiresAt) > created(chat').timestamp
     /\ \A r \in replies, t \in ReplyTexts :
          handleSendResponse(r, t) /\ r.live =>
            /\ created(chat').expiresAt = calculateExpiresAt(chat.ttl, created(chat').timestamp)
            /\ chat.ttl > 0 => The(created(chat').expiresAt) > created(chat').timestamp]_vars

(***************************************************************************)
(* Properties of the persisted records: ids, ciphertexts, conversations.   *)
(***************************************************************************)
\* C31: no two records of the persisted history collection have the same
\* id.  (SpecStore)
C31_RecordIdsUnique ==
  \A i, j \in 1..Len(HistoryOf(ls)) :
    HistoryOf(ls)[i].id = HistoryOf(ls)[j].id => i = j

\* The persisted fields that carry user content: of each, where it is
\* stored, its ciphertext and the IV stored beside it.
historyFields(storage) ==
  LET h == HistoryOf(storage)
  IN  {[at |-> <<"history", i, "content">>, ciphertext |-> h[i].ciphertext, iv |-> h[i].iv] :
         i \in 1..Len(h)}
      \cup
      {[at |-> <<"history", i, "media">>, ciphertext |-> The(h[i].ciphertextMedia),
        iv |-> The(h[i].ivMedia)] : i \in {j \in 1..Len(h) : h[j].ciphertextMedia # No}}

contactFields(storage) ==
  LET c == IF storage.contacts = No THEN <<>> ELSE The(storage.contacts)
  IN  {[at |-> <<"contacts", i, "name">>, ciphertext |-> c[i].ciphertextName, iv |-> c[i].ivName] :
         i \in 1..Len(c)}
      \cup
      {[at |-> <<"contacts", i, "note">>, ciphertext |-> c[i].ciphertextNote, iv |-> c[i].ivNote] :
         i \in 1..Len(c)}

profileFields(storage) ==
  IF storage.profile = No THEN {}
  ELSE LET p == The(storage.profile)
       IN  {[at |-> <<"profile", 1, "nickname">>, ciphertext |-> p.ciphertextNickname,
             iv |-> p.ivNickname],
            [at |-> <<"profile", 1, "bio">>, ciphertext |-> p.ciphertextBio, iv |-> p.ivBio]}

storedFields(storage) ==
  historyFields(storage) \cup contactFields(storage) \cup profileFields(storage)

\* The field is what encryptMessage returns under key: AES-GCM output that
\* verifies under that key and the IV stored beside it.
sealed(f, key) == SubtleVerifies(base64ToBuf(f.iv), key, base64ToBuf(f.ciphertext))

\* The fields that the savers that start in this step will write.
startedFields ==
  UNION {storedFields([EmptyStorage EXCEPT !.history = Some(sv.newEncrypted)]) :
           sv \in saves' \ saves}
  \cup UNION {storedFields([EmptyStorage EXCEPT !.contacts = Some(<<c>>)]) :
                c \in contactSaves' \ contactSaves}
  \cup UNION {storedFields([EmptyStorage EXCEPT !.profile = Some(p)]) :
                p \in profileSaves' \ profileSaves}

\* The keys held in this state: the key of the session, and the keys that
\* the sends awaiting their reply captured from their session.
heldKeys == {cryptoKey[i] : i \in 1..Len(cryptoKey)} \cup {r.key : r \in replies}

\* C32: every persisted field with user content (message content and
\* media, contact name and note, profile nickname and bio) is a ciphertext
\* made by encryptMessage under a derived key and stored with its IV, no
\* two fields share an IV, and whatever a save, a contact save or a profile
\* save is going to write it has encrypted under the key of the session
\* that started it, which a reply to a send holds from the send.  (SpecCipher)
C32_OnlyCiphertextStored ==
  /\ [](/\ \A f \in storedFields(ls) : \E k \in Keys : sealed(f, k)
        /\ \A f, g \in storedFields(ls) : f.iv = g.iv => f.at = g.at)
  /\ [][\A f \in startedFields : \E k \in heldKeys : sealed(f, k)]_vars

\* A message with its media and the profile are persisted together.
C32_MediaAndProfileStored ==
  /\ \E f \in historyFields(ls) : f.at[3] = "media"
  /\ profileFields(ls) # {}

(***************************************************************************)
(* Properties of the session key.                                          *)
(***************************************************************************)
\* The keys that a password gives with the persisted salt.
keysOfSalt(storage) ==
  IF storage.salt = No THEN {}
  ELSE {deriveKey(p, base64ToBuf(The(storage.salt))) : p \in Passwords}

\* C33: while the session is unlocked, its key is the key that some
\* password gives with the salt that is persisted.
C33_KeyOfPersistedSalt ==
  cryptoKey # No => The(cryptoKey) \in keysOfSalt(ls)

(***************************************************************************)
(* Properties of the conversation a record is saved under.                 *)
(***************************************************************************)
\* Every message of the list was created in the conversation conv.
createdIn(msgs, conv) == \A i \in 1..Len(msgs) : msgs[i].conversationId = Some(conv)

\* C34: the list that a send or a reply saves under a conversation id
\* holds only messages that were created in that conversation.
\* (SpecSwitch)
C34_SavedUnderOwnConversation ==
  [][/\ \A t \in InputTexts :
          handleSendText(t) => createdIn(chat'.messages, conversationId(activeContact))
     /\ \A a \in AudioData :
          handleSendAudio(a) => createdIn(chat'.messages, conversationId(activeContact))
     /\ \A r \in replies, t \in ReplyTexts :
          handleSendResponse(r, t) => createdIn(r.currentHistory, r.conversationId)]_vars

(***************************************************************************)
(* Properties of a session opened with a wrong password.                   *)
(***************************************************************************)
\* The key of the vault: the one its setup password gives with the
\* persisted salt.
vaultKey(storage) == deriveKey(CHOOSE p \in SetupPasswords : TRUE, base64ToBuf(The(storage.salt)))

\* The record decrypts under key.
opens(m, key) == SubtleVerifies(base64ToBuf(m.iv), key, base64ToBuf(m.ciphertext))

\* C35: the write of a save leaves every record that the key of the vault
\* decrypts, and whose id is still stored, decrypting under that key to
\* the same text.  (SpecRelock)
C35_WrongKeyKeepsRecords ==
  [][\A s \in saves :
       saveWritten(s) /\ ls.salt # No =>
         \A i \in 1..Len(HistoryOf(ls)), j \in 1..Len(HistoryOf(ls')) :
           LET old == HistoryOf(ls)[i]
               new == HistoryOf(ls')[j]
           IN  opens(old, vaultKey(ls)) /\ new.id = old.id =>
                 /\ opens(new, vaultKey(ls))
                 /\ decryptMessage(new.ciphertext, new.iv, vaultKey(ls))
                      = decryptMessage(old.ciphertext, old.iv, vaultKey(ls))]_vars

(***************************************************************************)
(* Properties of the view and the persisted records together.              *)
(***************************************************************************)
\* The global conversation is shown with an empty list and no load in
\* flight.  A load of the global conversation that finds no record shows a
\* greeting, so the list is empty only when handleClear has emptied it and
\* nothing has been sent or answered since.
clearedGlobal == ChatShown /\ activeContact = No /\ loads = {} /\ chat.messages = <<>>

\* C36: after a clear of the global conversation, the write of a save that
\* was started before it puts no record of the conversation back into the
\* persisted collection, and a reply to a message sent before it does not
\* put that message back into the shown list.  (SpecStoreClear)
C36_ClearNotUndone ==
  [][clearedGlobal =>
       /\ \A s \in saves :
            saveWritten(s) /\ s.conversationId = "global" =>
              RecordsOf(HistoryOf(ls'), "global") = <<>>
       /\ \A r \in replies, t \in ReplyTexts :
            handleSendResponse(r, t) /\ r.live /\ r.conversationId = "global" =>
              \A i \in 1..Len(chat'.messages) : chat'.messages[i] # r.userMsg]_vars

\* The ids of a list of messages or records, in order.
idsOf(ms) == [i \in 1..Len(ms) |-> ms[i].id]

\* The stored records of conversation conv that have not expired at t.
unexpiredRecords(storage, conv, t) ==
  LET Live(m) == ConvOf(m) = conv /\ NotExpired(m, t)
  IN  SelectSeq(HistoryOf(storage), Live)

\* The shown list is the greeting of a conversation without messages.
onlyGreeting(msgs) == Len(msgs) = 1 /\ msgs[1].id \in GreetingIds

\* C37: while the chat is shown and no load and no save is in flight, the
\* shown list has the ids of the unexpired persisted records of the active
\* conversation, in their order; a conversation without such records
\* shows nothing or its greeting.  (SpecStore)
C37_ViewMatchesStore ==
  ChatShown /\ loads = {} /\ saves = {} =>
    LET stored == unexpiredRecords(ls, conversationId(activeContact), now)
    IN  \/ idsOf(chat.messages) = idsOf(stored)
        \/ stored = <<>> /\ onlyGreeting(chat.messages)

\* C38: a message of the user that is persisted stays persisted under its
\* conversation: no write of a save removes it.  (SpecStore, in which no
\* message expires and no conversation is cleared)
C38_SentStaysStored ==
  [][\A s \in saves :
       saveWritten(s) =>
         \A i \in 1..Len(HistoryOf(ls)) :
           LET m == HistoryOf(ls)[i]
           IN  m.role = "user" =>
                 \E j \in 1..Len(HistoryOf(ls')) :
                   /\ HistoryOf(ls')[j].id = m.id
                   /\ ConvOf(HistoryOf(ls')[j]) = ConvOf(m)]_vars

(***************************************************************************)
(* Properties of the contacts.                                             *)
(***************************************************************************)
\* The stored contacts, in order.
contactsOf(storage) == IF storage.contacts = No THEN <<>> ELSE The(storage.contacts)

\* The blobs that a change of the contacts leaves alone.
besideContacts(storage) == <<storage.history, storage.profile, storage.salt, storage.canary>>

\* C39: the write of a contact save leaves the contacts stored at that
\* moment as they are and appends one record, which holds the two
\* ciphertexts of the save; a delete leaves the stored contacts of every
\* other id as they are, in their order, and removes those of its id; and
\* neither changes the persisted history, profile or salt.
\* (SpecAddressBook)
C39_ContactsLoseNoUpdate ==
  [][/\ \A c \in contactSaves :
          contactStored(c) =>
            LET after == contactsOf(ls')
                n == Len(contactsOf(ls))
            IN  /\ Len(after) = n + 1
                /\ SubSeq(after, 1, n) = contactsOf(ls)
                /\ after[n + 1].ciphertextName = c.ciphertextName
                /\ after[n + 1].ivName = c.ivName
                /\ after[n + 1].ciphertextNote = c.ciphertextNote
                /\ after[n + 1].ivNote = c.ivNote
                /\ besideContacts(ls') = besideContacts(ls)
     /\ \A id \in ContactIds(ls) :
          handleDelete(id) =>
            LET Other(c) == c.id # id
            IN  /\ contactsOf(ls') = SelectSeq(contactsOf(ls), Other)
                /\ id \notin ContactIds(ls')
                /\ besideContacts(ls') = besideContacts(ls)]_vars

\* Two contacts have been saved and one of them deleted: the four IVs
\* drawn so far went to contacts, and one contact is stored.
C39_OneOfTwoDeleted ==
  /\ Len(contactsOf(ls)) = 1
  /\ nextIv = 5
  /\ ls.history = No /\ ls.profile = No
  /\ saves = {} /\ contactSaves = {} /\ profileSaves = {}

\* The remote ids under which the cloud holds a document.
pushedIds == DOMAIN cloud.docs

\* C40: in every Settings session of a vault, the profile id is the id under
\* which the vault's earlier pushes wrote their documents, so that a pull
\* asks for the document a push has written, whether or not the profile was
\* saved.  (SpecIdentity)
C40_ProfileIdStable ==
  profile # No => \A remoteId \in pushedIds : remoteId = The(profile)

====
